---------------------------- MODULE Spec2Model ----------------------------
(***************************************************************************)
(* A model of the LinkedIn Profile Optimization Agent: the vision reply    *)
(* parser (src/src/vision_engine.py), the telemetry buffer                 *)
(* (src/src/telemetry.py), the gap analyzer                                *)
(* (src/src/profile_gap_analyzer.py), the report section extractor         *)
(* (src/src/one_click_implementation.py), the content scorer               *)
(* (src/src/content_scorer.py) and the session handlers of src/app.py.     *)
(*                                                                         *)
(* Text is modelled by TLA+ strings; positions are 0-based as in Python.   *)
(***************************************************************************)
EXTENDS Integers, Sequences, FiniteSets, TLC

VARIABLES
    \* ---- vision reply parser (VisionEngine._parse_response)
    response_text,      \* the raw reply handed to _parse_response
    parse_pc,           \* "idle" | "received" | "parsed"
    parse_result,       \* what _parse_response returned or raised
    \* ---- telemetry buffer (TelemetryLogger)
    local_logs,         \* self.local_logs, oldest entry first
    log_file,           \* the entries last written to telemetry_logs.json
    log_clock,          \* how many events this process has logged
    log_plan,           \* what this run logs and whether the file is writable
    \* ---- gap analysis (ProfileGapAnalyzer.analyze_gaps)
    gap_profile,        \* current_profile
    gap_target,         \* industry and role
    gap_pc,             \* "idle" | "ready" | "analyzed"
    gap_analysis,       \* what analyze_gaps returned
    \* ---- completeness score (ProfileGapAnalyzer._calculate_completeness_score)
    scored_gaps,        \* the gap list last scored
    completeness_score, \* its score
    previous_score,     \* the score of the list without its last gap
    \* ---- report sections (OneClickImplementation._find_section)
    report,             \* the optimization report searched
    section_name,       \* the section asked for
    section_pc,         \* "idle" | "ready" | "found"
    section_result,     \* what _find_section returned or raised
    \* ---- content scorer (ContentQualityScorer.calculate_overall_score)
    scorer_profile,     \* profile_data
    scorer_target,      \* target industry and role
    scorer_pc,          \* "idle" | "ready" | "scored"
    content_scores,     \* what calculate_overall_score returned
    \* ---- the session (st.session_state of src/app.py) and the training logger
    profile_data,       \* None or the LinkedInProfile stored
    optimization_report,\* None or the report text stored
    pdf_profile_data,   \* None or the PDFProfileData stored
    upload_method,      \* None, "pdf" or "images"
    conversation_history, \* the chat messages
    session_config,     \* target_industry, target_role, current_model
    session_message,    \* what the page reported last
    training_dataset,   \* the lines of the training dataset file
    implementation_checklist, \* None or the checklist dict
    validation,         \* None or what validate_extraction returned in this run
    extracted,          \* the profiles the extractor has parsed from replies
    session_steps,      \* how many handlers have run
    \* ---- one call of VisionEngine.extract_profile_data, step by step
    extract_files,      \* the uploaded files it is given
    extract_pc,         \* where the call is
    attempt,            \* the loop variable of the retry loop
    api_calls,          \* how many times the vision API was called
    api_errors,         \* the error of each call that failed, in order
    sleeps,             \* the seconds of each time.sleep, in order
    extract_reply,      \* the content of the reply
    parse_calls,        \* how many times _parse_response was called
    extract_result,     \* what the call returned, or that it raised
    extract_error,      \* the exception the caller sees
    \* ---- the strategy engine and the handlers that call it
    strategy_engine,    \* what is configured: keys, library, fine-tuned model
    text_api_calls,     \* how many text-generation API calls were made
    strategy_events,    \* the strategy_generation telemetry entries
    strategy_report,    \* st.session_state.optimization_report
    strategy_examples,  \* how many training examples were logged
    strategy_outcome,   \* the last call of generate_optimization_plan
    strategy_checked,   \* the last availability query and its answers
    strategy_steps,     \* how many handlers have run
    \* ---- TrainingLogger and its dataset file
    dataset_path,       \* self.dataset_path, None when no file could be made
    dataset_file,       \* the content of the dataset file
    training_returned,  \* the last call and what it returned
    logged_examples,    \* the calls that returned True since the file was empty
    dataset_stats,      \* what get_dataset_stats last reported
    training_steps,     \* how many calls were made
    \* ---- two TelemetryLogger instances over one telemetry_logs.json
    shared_file,        \* the entries telemetry_logs.json holds
    instance_logs,      \* self.local_logs of each instance
    instance_pc,        \* where each instance is
    saved_events,       \* the events whose _add_log_entry saved the file
    shared_clock,       \* how many events were logged
    \* ---- DynamicChecklistGenerator.generate_dynamic_checklist
    checklist_input,    \* profile_data, quality_scores and target_industry of the call
    checklist_pc,       \* "idle" | "ready" | "generated"
    checklist_tasks,    \* the tasks the call returned
    \* ---- MLOpsManager.wait_for_completion, step by step
    mlops_args,         \* check_interval and timeout of the call
    mlops_pc,           \* where the call is
    mlops_now,          \* time.time() - start_time
    mlops_last,         \* what the last check_finetune_status gave
    mlops_result,       \* what the call returned, or the exception it raised
    mlops_sleeps,       \* how many times it slept
    \* ---- one run of analyze_profile (src/app.py), step by step
    analyze_pc,         \* where the run is
    analyze_events,     \* the calls and log entries of the run, in order
    analyze_outcome,    \* how extraction and generation ended in the run
    analyze_runs,       \* how many runs were started
    analyze_session,    \* st.session_state: profile_data and optimization_report
    analyze_report_of   \* history: the profile the stored report was generated from

parse_vars == <<response_text, parse_pc, parse_result>>
telemetry_vars == <<local_logs, log_file, log_clock, log_plan>>
gap_vars == <<gap_profile, gap_target, gap_pc, gap_analysis>>
completeness_vars == <<scored_gaps, completeness_score, previous_score>>
section_vars == <<report, section_name, section_pc, section_result>>
scorer_vars == <<scorer_profile, scorer_target, scorer_pc, content_scores>>
session_vars == <<profile_data, optimization_report, pdf_profile_data, upload_method,
                  conversation_history, session_config, session_message,
                  training_dataset, implementation_checklist, validation, extracted,
                  session_steps>>
extract_vars == <<extract_files, extract_pc, attempt, api_calls, api_errors, sleeps,
                  extract_reply, parse_calls, extract_result, extract_error>>
strategy_vars == <<strategy_engine, text_api_calls, strategy_events, strategy_report,
                   strategy_examples, strategy_outcome, strategy_checked, strategy_steps>>
training_vars == <<dataset_path, dataset_file, training_returned, logged_examples,
                   dataset_stats, training_steps>>
shared_vars == <<shared_file, instance_logs, instance_pc, saved_events, shared_clock>>
checklist_vars == <<checklist_input, checklist_pc, checklist_tasks>>
mlops_vars == <<mlops_args, mlops_pc, mlops_now, mlops_last, mlops_result, mlops_sleeps>>
analyze_vars ==
    <<analyze_pc, analyze_events, analyze_outcome, analyze_runs, analyze_session,
      analyze_report_of>>
vars == <<parse_vars, telemetry_vars, gap_vars, completeness_vars, section_vars,
          scorer_vars, session_vars, extract_vars, strategy_vars, training_vars,
          shared_vars,
          checklist_vars,
          mlops_vars,
          analyze_vars>>

\* what the operations of one component leave alone
outside_parse ==
    <<telemetry_vars, gap_vars, completeness_vars, section_vars, scorer_vars, session_vars,
      extract_vars, strategy_vars, training_vars,
      shared_vars,
      checklist_vars,
      mlops_vars,
      analyze_vars>>
outside_telemetry ==
    <<parse_vars, gap_vars, completeness_vars, section_vars, scorer_vars, session_vars,
      extract_vars, strategy_vars, training_vars,
      shared_vars,
      checklist_vars,
      mlops_vars,
      analyze_vars>>
outside_gap ==
    <<parse_vars, telemetry_vars, completeness_vars, section_vars, scorer_vars, session_vars,
      extract_vars, strategy_vars, training_vars,
      shared_vars,
      checklist_vars,
      mlops_vars,
      analyze_vars>>
outside_completeness ==
    <<parse_vars, telemetry_vars, gap_vars, section_vars, scorer_vars, session_vars,
      extract_vars, strategy_vars, training_vars,
      shared_vars,
      checklist_vars,
      mlops_vars,
      analyze_vars>>
outside_section ==
    <<parse_vars, telemetry_vars, gap_vars, completeness_vars, scorer_vars, session_vars,
      extract_vars, strategy_vars, training_vars,
      shared_vars,
      checklist_vars,
      mlops_vars,
      analyze_vars>>
outside_scorer ==
    <<parse_vars, telemetry_vars, gap_vars, completeness_vars, section_vars, session_vars,
      extract_vars, strategy_vars, training_vars,
      shared_vars,
      checklist_vars,
      mlops_vars,
      analyze_vars>>
\* the session handlers log to the telemetry buffer
outside_session ==
    <<parse_vars, gap_vars, completeness_vars, section_vars, scorer_vars, extract_vars,
      strategy_vars, training_vars,
      shared_vars,
      checklist_vars,
      mlops_vars,
      analyze_vars>>
outside_extract ==
    <<parse_vars, telemetry_vars, gap_vars, completeness_vars, section_vars, scorer_vars,
      session_vars, strategy_vars, training_vars,
      shared_vars,
      checklist_vars,
      mlops_vars,
      analyze_vars>>
outside_strategy ==
    <<parse_vars, telemetry_vars, gap_vars, completeness_vars, section_vars, scorer_vars,
      session_vars, extract_vars, training_vars,
      shared_vars,
      checklist_vars,
      mlops_vars,
      analyze_vars>>
outside_training ==
    <<parse_vars, telemetry_vars, gap_vars, completeness_vars, section_vars, scorer_vars,
      session_vars, extract_vars, strategy_vars,
      shared_vars,
      checklist_vars,
      mlops_vars,
      analyze_vars>>
outside_shared ==
    <<parse_vars, telemetry_vars, gap_vars, completeness_vars, section_vars,
      scorer_vars, session_vars, extract_vars, strategy_vars, training_vars,
      checklist_vars,
      mlops_vars,
      analyze_vars>>
outside_checklist ==
    <<parse_vars, telemetry_vars, gap_vars, completeness_vars, section_vars,
      scorer_vars, session_vars, extract_vars, strategy_vars, training_vars,
      shared_vars,
      mlops_vars,
      analyze_vars>>
outside_mlops ==
    <<parse_vars, telemetry_vars, gap_vars, completeness_vars, section_vars,
      scorer_vars, session_vars, extract_vars, strategy_vars, training_vars,
      shared_vars, checklist_vars,
      analyze_vars>>
outside_analyze ==
    <<parse_vars, telemetry_vars, gap_vars, completeness_vars, section_vars,
      scorer_vars, session_vars, extract_vars, strategy_vars, training_vars,
      shared_vars, checklist_vars, mlops_vars>>

(***************************************************************************)
(* Python str operations                                                   *)
(***************************************************************************)
MinOf(S) == CHOOSE m \in S : \A n \in S : m <= n

\* s[i]
CharAt(s, i) == SubSeq(s, i + 1, i + 1)

\* s[a:b] for 0 <= a, b <= len(s); empty when b <= a
Slice(s, a, b) == SubSeq(s, a + 1, b)

\* s[a:]
SliceFrom(s, a) == SubSeq(s, a + 1, Len(s))

\* s[i:i+len(sub)] == sub
MatchAt(s, sub, i) ==
    /\ i + Len(sub) <= Len(s)
    /\ SubSeq(s, i + 1, i + Len(sub)) = sub

\* s.startswith(sub)
StartsWith(s, sub) == MatchAt(s, sub, 0)

\* s.endswith(sub)
EndsWith(s, sub) == Len(sub) <= Len(s) /\ MatchAt(s, sub, Len(s) - Len(sub))

\* s.find(sub, start): the lowest index >= start where sub occurs, or -1
FindFrom(s, sub, start) ==
    LET hits == {i \in start..(Len(s) - Len(sub)) : MatchAt(s, sub, i)}
    IN  IF hits = {} THEN -1 ELSE MinOf(hits)

\* s.find(sub)
Find(s, sub) == FindFrom(s, sub, 0)

\* sub in s
Contains(s, sub) == \E i \in 0..(Len(s) - Len(sub)) : MatchAt(s, sub, i)

\* the characters str.strip() and str.split() treat as whitespace
PyWhitespace == {" ", "\n", "\r", "\t", "\f"}

\* s.strip()
Strip(s) ==
    LET keep == {i \in 0..(Len(s) - 1) : CharAt(s, i) \notin PyWhitespace}
    IN  IF keep = {} THEN ""
        ELSE Slice(s, MinOf(keep), (CHOOSE m \in keep : \A n \in keep : n <= m) + 1)

\* s.replace(old, new): every non-overlapping occurrence, leftmost first
RECURSIVE Replace(_, _, _)
Replace(s, old, new) ==
    LET i == Find(s, old)
    IN  IF i = -1 THEN s
        ELSE Slice(s, 0, i) \o new \o Replace(SliceFrom(s, i + Len(old)), old, new)

UpperLetters == "ABCDEFGHIJKLMNOPQRSTUVWXYZ"
LowerLetters == "abcdefghijklmnopqrstuvwxyz"

LowerChar(c) ==
    LET i == Find(UpperLetters, c)
    IN  IF i = -1 THEN c ELSE CharAt(LowerLetters, i)

\* s.lower(), halving the text so that the recursion stays shallow
RECURSIVE Lower(_)
Lower(s) ==
    IF Len(s) = 0 THEN ""
    ELSE IF Len(s) = 1 THEN LowerChar(s)
    ELSE Lower(Slice(s, 0, Len(s) \div 2)) \o Lower(SliceFrom(s, Len(s) \div 2))

(***************************************************************************)
(* json.loads, for the texts of this model: objects, arrays, strings,      *)
(* null and integers without a sign. No text of the model holds another    *)
(* number, true, false or a \u escape.                                     *)
(***************************************************************************)
JsonDigits == {"0", "1", "2", "3", "4", "5", "6", "7", "8", "9"}

\* int(digits)
RECURSIVE DigitsToInt(_)
DigitsToInt(digits) ==
    IF digits = "" THEN 0
    ELSE 10 * DigitsToInt(SubSeq(digits, 1, Len(digits) - 1))
         + (CHOOSE d \in 0..9 : SubSeq("0123456789", d + 1, d + 1)
                                   = SubSeq(digits, Len(digits), Len(digits)))

\* NUMBER_RE at i, for an integer: "0", or a run of digits that starts with
\* another digit
ScanInteger(s, i) ==
    LET stop == {j \in i..(Len(s) - 1) : SubSeq(s, j + 1, j + 1) \notin JsonDigits}
        end  == IF SubSeq(s, i + 1, i + 1) = "0" THEN i + 1
                ELSE IF stop = {} THEN Len(s)
                ELSE CHOOSE m \in stop : \A n \in stop : m <= n
    IN  [ok |-> TRUE, v |-> [t |-> "n", n |-> DigitsToInt(SubSeq(s, i + 1, end))], i |-> end]

JsonWhitespace == {" ", "\t", "\n", "\r"}

JsonFail == [ok |-> FALSE, v |-> [t |-> "none"], i |-> 0]

JsonOk(val, next) == [ok |-> TRUE, v |-> val, i |-> next]

\* the first index >= i that holds no JSON whitespace (len(s) when none)
SkipWs(s, i) ==
    LET stop == {j \in i..(Len(s) - 1) : CharAt(s, j) \notin JsonWhitespace}
    IN  IF stop = {} THEN (IF i > Len(s) THEN i ELSE Len(s)) ELSE MinOf(stop)

\* the character a backslash escape stands for, "" when it is no escape
Unescaped(e) ==
    CASE e = "\"" -> "\""
      [] e = "\\" -> "\\"
      [] e = "/"  -> "/"
      [] e = "n"  -> "\n"
      [] e = "r"  -> "\r"
      [] e = "t"  -> "\t"
      [] e = "f"  -> "\f"
      [] OTHER    -> ""

\* py_scanstring (strict): i is the index after the opening quote
RECURSIVE ScanString(_, _, _)
ScanString(s, i, acc) ==
    IF i >= Len(s) THEN JsonFail                       \* unterminated string
    ELSE LET c == CharAt(s, i)
         IN  IF c = "\"" THEN JsonOk([t |-> "s", s |-> acc], i + 1)
             ELSE IF c = "\\"
                  THEN IF i + 1 >= Len(s) \/ Unescaped(CharAt(s, i + 1)) = ""
                       THEN JsonFail                   \* invalid \escape
                       ELSE ScanString(s, i + 2, acc \o Unescaped(CharAt(s, i + 1)))
             ELSE IF c \in {"\n", "\r", "\t", "\f"}
                  THEN JsonFail                        \* invalid control character
             ELSE ScanString(s, i + 1, acc \o c)

RECURSIVE ParseValue(_, _), ParseMembers(_, _, _), ParseElements(_, _, _)

\* scan_once
ParseValue(s, i) ==
    IF i >= Len(s) THEN JsonFail
    ELSE LET c == CharAt(s, i)
         IN  CASE c = "\"" -> ScanString(s, i + 1, "")
               [] c = "{"  ->
                    LET j == SkipWs(s, i + 1)
                    IN  IF j < Len(s) /\ CharAt(s, j) = "}"
                        THEN JsonOk([t |-> "o", o |-> <<>>], j + 1)
                        ELSE ParseMembers(s, j, <<>>)
               [] c = "["  ->
                    LET j == SkipWs(s, i + 1)
                    IN  IF j < Len(s) /\ CharAt(s, j) = "]"
                        THEN JsonOk([t |-> "a", a |-> <<>>], j + 1)
                        ELSE ParseElements(s, j, <<>>)
               [] c = "n"  ->
                    IF i + 4 <= Len(s) /\ Slice(s, i, i + 4) = "null"
                    THEN JsonOk([t |-> "null"], i + 4)
                    ELSE JsonFail
               [] c \in JsonDigits -> ScanInteger(s, i)
               [] OTHER    -> JsonFail

\* JSONObject: j is where a member's key must open
ParseMembers(s, j, acc) ==
    IF j >= Len(s) \/ CharAt(s, j) # "\"" THEN JsonFail   \* expecting property name
    ELSE LET k == ScanString(s, j + 1, "")
         IN  IF ~k.ok THEN JsonFail
             ELSE LET c == SkipWs(s, k.i)
                  IN  IF c >= Len(s) \/ CharAt(s, c) # ":" THEN JsonFail
                      ELSE LET v == ParseValue(s, SkipWs(s, c + 1))
                           IN  IF ~v.ok THEN JsonFail
                               ELSE LET e    == SkipWs(s, v.i)
                                        more == Append(acc, <<k.v.s, v.v>>)
                                    IN  IF e >= Len(s) THEN JsonFail
                                        ELSE IF CharAt(s, e) = "}"
                                             THEN JsonOk([t |-> "o", o |-> more], e + 1)
                                        ELSE IF CharAt(s, e) = ","
                                             THEN ParseMembers(s, SkipWs(s, e + 1), more)
                                        ELSE JsonFail

\* JSONArray: j is where an element must start
ParseElements(s, j, acc) ==
    LET v == ParseValue(s, j)
    IN  IF ~v.ok THEN JsonFail
        ELSE LET e    == SkipWs(s, v.i)
                 more == Append(acc, v.v)
             IN  IF e >= Len(s) THEN JsonFail
                 ELSE IF CharAt(s, e) = "]"
                      THEN JsonOk([t |-> "a", a |-> more], e + 1)
                 ELSE IF CharAt(s, e) = ","
                      THEN ParseElements(s, SkipWs(s, e + 1), more)
                 ELSE JsonFail

\* json.loads(s): ok is FALSE where it raises JSONDecodeError
JsonLoads(s) ==
    LET v == ParseValue(s, SkipWs(s, 0))
    IN  IF v.ok /\ SkipWs(s, v.i) = Len(s) THEN v ELSE JsonFail

(***************************************************************************)
(* LinkedInProfile and ExperienceItem (pydantic models)                    *)
(***************************************************************************)
\* a JSON object is a sequence of <<key, value>> pairs; as a dict, the last
\* pair of a key is the one that counts
ObjHas(o, k) == \E n \in 1..Len(o) : o[n][1] = k

ObjGet(o, k) ==
    o[CHOOSE n \in 1..Len(o) :
        o[n][1] = k /\ \A m \in (n + 1)..Len(o) : o[m][1] # k][2]

\* a str field with default "": absent, or a JSON string
StrFieldOk(o, k) == ~ObjHas(o, k) \/ ObjGet(o, k).t = "s"

StrField(o, k) == IF ObjHas(o, k) THEN ObjGet(o, k).s ELSE ""

\* ExperienceItem(**item)
ExperienceItemOk(item) ==
    /\ item.t = "o"
    /\ \A k \in {"title", "company", "dates", "description"} : StrFieldOk(item.o, k)

ExperienceItem(item) ==
    [title       |-> StrField(item.o, "title"),
     company     |-> StrField(item.o, "company"),
     dates       |-> StrField(item.o, "dates"),
     description |-> StrField(item.o, "description")]

EmptyProfile == [headline |-> "", about |-> "", experience |-> <<>>, skills |-> <<>>]

\* what a call returns: a profile, or "error" where it raises
Returned(p) == [kind |-> "profile", profile |-> p]

Raised == [kind |-> "error", profile |-> EmptyProfile]

\* LinkedInProfile(**data): pydantic validates every field and ignores other keys
LinkedInProfile(data) ==
    IF data.t # "o" THEN Raised
    ELSE LET o == data.o
             experienceOk ==
                 \/ ~ObjHas(o, "experience")
                 \/ /\ ObjGet(o, "experience").t = "a"
                    /\ \A n \in 1..Len(ObjGet(o, "experience").a) :
                           ExperienceItemOk(ObjGet(o, "experience").a[n])
             skillsOk ==
                 \/ ~ObjHas(o, "skills")
                 \/ /\ ObjGet(o, "skills").t = "a"
                    /\ \A n \in 1..Len(ObjGet(o, "skills").a) :
                           ObjGet(o, "skills").a[n].t = "s"
         IN  IF StrFieldOk(o, "headline") /\ StrFieldOk(o, "about")
                /\ experienceOk /\ skillsOk
             THEN Returned(
                    [headline   |-> StrField(o, "headline"),
                     about      |-> StrField(o, "about"),
                     experience |->
                        IF ObjHas(o, "experience")
                        THEN [n \in 1..Len(ObjGet(o, "experience").a) |->
                                 ExperienceItem(ObjGet(o, "experience").a[n])]
                        ELSE <<>>,
                     skills     |->
                        IF ObjHas(o, "skills")
                        THEN [n \in 1..Len(ObjGet(o, "skills").a) |->
                                 ObjGet(o, "skills").a[n].s]
                        ELSE <<>>])
             ELSE Raised

(***************************************************************************)
(* VisionEngine._parse_response and its helpers                            *)
(***************************************************************************)
\* the lowest of two str.find results that is not -1 (-1 when both are)
FirstOf(a, b) == IF a = -1 THEN b ELSE IF b = -1 THEN a ELSE IF a < b THEN a ELSE b

\* _manual_quote_escape: the loop from position i on, escape_next being
\* False. A run of characters that are neither a quote nor a backslash is
\* appended unchanged in one step; a backslash is appended together with the
\* character after it (escape_next).
RECURSIVE QuoteEscapeFrom(_, _, _)
QuoteEscapeFrom(text, i, in_quotes) ==
    LET at == FirstOf(FindFrom(text, "\"", i), FindFrom(text, "\\", i))
        upto == IF at + 3 <= Len(text) THEN at + 3 ELSE Len(text)
        next_chars == Strip(Slice(text, at + 1, upto))
        closing == \/ StartsWith(next_chars, ",")
                   \/ StartsWith(next_chars, "}")
                   \/ StartsWith(next_chars, "]")
                   \/ at = Len(text) - 1
    IN  IF at = -1 THEN SliceFrom(text, i)
        ELSE IF CharAt(text, at) = "\\"
        THEN IF at + 1 >= Len(text) THEN SliceFrom(text, i)
             ELSE Slice(text, i, at + 2) \o QuoteEscapeFrom(text, at + 2, in_quotes)
        ELSE IF ~in_quotes
        THEN Slice(text, i, at + 1) \o QuoteEscapeFrom(text, at + 1, TRUE)
        ELSE IF closing
        THEN Slice(text, i, at + 1) \o QuoteEscapeFrom(text, at + 1, FALSE)
        ELSE Slice(text, i, at) \o "\\" \o "\"" \o QuoteEscapeFrom(text, at + 1, TRUE)

_manual_quote_escape(text) == QuoteEscapeFrom(text, 0, FALSE)

\* the value the fallback finds for a key: the text between the first two
\* quotes after the first colon after the key, "" when any of them is missing
FallbackField(text, key) ==
    LET key_start == Find(text, key)
        value_start == FindFrom(text, ":", key_start)
        quote_start == FindFrom(text, "\"", value_start)
        quote_end == FindFrom(text, "\"", quote_start + 1)
    IN  IF key_start # -1 /\ value_start # -1 /\ quote_start # -1 /\ quote_end # -1
        THEN Slice(text, quote_start + 1, quote_end)
        ELSE ""

_create_fallback_profile(text) ==
    [headline   |-> FallbackField(text, "\"headline\""),
     about      |-> FallbackField(text, "\"about\""),
     experience |-> <<>>,
     skills     |-> <<>>]

\* the brace-matching loop from position i on: the index after the first "}"
\* that brings brace_count back to 0, or -1. Characters that are no brace
\* leave brace_count alone and are skipped in one step.
RECURSIVE BraceEnd(_, _, _)
BraceEnd(text, i, brace_count) ==
    LET at == FirstOf(FindFrom(text, "{", i), FindFrom(text, "}", i))
    IN  IF at = -1 THEN -1
        ELSE IF CharAt(text, at) = "{" THEN BraceEnd(text, at + 1, brace_count + 1)
        ELSE IF brace_count - 1 = 0 THEN at + 1
        ELSE BraceEnd(text, at + 1, brace_count - 1)

\* text from the first "{" on (lines 106-115); only for a text that has one
FromFirstBrace(reply) ==
    LET t == Strip(reply)
    IN  IF StartsWith(t, "{") THEN t ELSE SliceFrom(t, Find(t, "{"))

\* the markdown fence. A TLA+ string cannot hold a backquote: "~" stands for
\* it, and no text of the model holds "~" for anything else
Fence == "~~~"

FenceJson == "~~~json"

\* markdown fences off (lines 118-124)
StripFences(t) ==
    LET a == IF StartsWith(t, FenceJson) THEN SliceFrom(t, 7) ELSE t
        b == IF StartsWith(a, Fence) THEN SliceFrom(a, 3) ELSE a
        c == IF EndsWith(b, Fence) THEN Slice(b, 0, Len(b) - 3) ELSE b
    IN  Strip(c)

\* cut after the matching closing brace, when there is one (lines 127-139)
CutAtBraceEnd(t) ==
    LET json_end == BraceEnd(t, 0, 0)
    IN  IF json_end # -1 THEN Slice(t, 0, json_end) ELSE t

\* trailing commas off, line breaks escaped (lines 147-150)
CleanJson(t) ==
    Replace(Replace(Replace(Replace(t, ",}", "}"), ",]", "]"), "\n", "\\n"), "\r", "\\r")

\* the parse attempts on the cleaned text (lines 155-175)
ParseCleaned(cleaned) ==
    LET first == JsonLoads(cleaned)
        second == JsonLoads(_manual_quote_escape(cleaned))
    IN  IF first.ok THEN LinkedInProfile(first.v)
        ELSE IF second.ok THEN LinkedInProfile(second.v)
        ELSE Returned(_create_fallback_profile(cleaned))

\* _parse_response(response_text): Raised where it raises ValueError
_parse_response(reply) ==
    IF ~StartsWith(Strip(reply), "{") /\ Find(Strip(reply), "{") = -1
    THEN Raised                                   \* "No JSON found in response"
    ELSE LET cut == CutAtBraceEnd(StripFences(FromFirstBrace(reply)))
         IN  IF ~StartsWith(cut, "{") \/ ~EndsWith(cut, "}")
             THEN Raised                          \* "doesn't appear to be valid JSON"
             ELSE ParseCleaned(CleanJson(cut))

(***************************************************************************)
(* The replies of the vision model: a profile written out as the prompt    *)
(* asks (a JSON object, on one line or laid out over several lines as in   *)
(* the prompt's example), with the defects the parser is written for.      *)
(***************************************************************************)
RECURSIVE Join(_, _)
Join(items, sep) ==
    IF items = <<>> THEN ""
    ELSE IF Len(items) = 1 THEN items[1]
    ELSE items[1] \o sep \o Join(Tail(items), sep)

RECURSIVE Indent(_)
Indent(depth) == IF depth = 0 THEN "" ELSE "  " \o Indent(depth - 1)

\* a string value; when fmt.escape is FALSE the model "forgot" to escape it
DumpStr(s, fmt) ==
    IF fmt.escape
    THEN "\"" \o Replace(Replace(Replace(s, "\\", "\\" \o "\\"), "\"", "\\" \o "\""),
                         "\n", "\\" \o "n") \o "\""
    ELSE "\"" \o s \o "\""

Break(fmt, depth) == IF fmt.style = "line" THEN "" ELSE "\n" \o Indent(depth)

Comma(fmt, depth) == IF fmt.style = "line" THEN ", " ELSE ",\n" \o Indent(depth)

DumpArray(items, fmt, depth) ==
    IF items = <<>> THEN "[]"
    ELSE "[" \o Break(fmt, depth + 1) \o Join(items, Comma(fmt, depth + 1))
             \o Break(fmt, depth) \o "]"

DumpObject(members, fmt, depth, last) ==
    "{" \o Break(fmt, depth + 1) \o Join(members, Comma(fmt, depth + 1))
        \o last \o Break(fmt, depth) \o "}"

Member(k, dumped) == "\"" \o k \o "\": " \o dumped

DumpExperience(e, fmt, depth) ==
    DumpObject(<<Member("title", DumpStr(e.title, fmt)),
                 Member("company", DumpStr(e.company, fmt)),
                 Member("dates", DumpStr(e.dates, fmt)),
                 Member("description", DumpStr(e.description, fmt))>>,
               fmt, depth, "")

\* the reply body for profile p; fmt.trailing_comma leaves a comma before the
\* closing brace
Dumps(p, fmt) ==
    DumpObject(<<Member("headline", DumpStr(p.headline, fmt)),
                 Member("about", DumpStr(p.about, fmt)),
                 Member("experience",
                        DumpArray([n \in 1..Len(p.experience) |->
                                      DumpExperience(p.experience[n], fmt, 2)], fmt, 1)),
                 Member("skills",
                        DumpArray([n \in 1..Len(p.skills) |-> DumpStr(p.skills[n], fmt)],
                                  fmt, 1))>>,
               fmt, 0, IF fmt.trailing_comma THEN "," ELSE "")

\* what surrounds the body in the reply
Wrap(body, wrapper) ==
    CASE wrapper = "none"  -> body
      [] wrapper = "fence" -> FenceJson \o "\n" \o body \o "\n" \o Fence
      [] wrapper = "intro" -> "Here is the profile:\n" \o body
      [] wrapper = "outro" -> body \o "\nHope this helps"

\* the reply cut off cut characters before its end
CutOff(body, cut) == Slice(body, 0, Len(body) - cut)

ReplyHeadlines == {"", "Dev | Ops", "Say \"hi\" to data"}

ReplyAbouts == {"", "I code", "Line one\nLine two"}

ReplyExperiences ==
    {<<>>, <<[title |-> "Dev", company |-> "Acme", dates |-> "", description |-> "Led a team"]>>}

ReplySkills == {<<>>, <<"SQL", "Go">>}

ReplyProfiles ==
    [headline : ReplyHeadlines, about : ReplyAbouts,
     experience : ReplyExperiences, skills : ReplySkills]

ReplyFormats ==
    [style : {"line", "lines"}, escape : BOOLEAN, trailing_comma : BOOLEAN]

Wrappers == {"none", "fence", "intro", "outro"}

\* how many characters a reply may lose at its end
MaxCut == 2

Replies ==
    {Wrap(CutOff(Dumps(p, fmt), cut), w) :
        p \in ReplyProfiles, fmt \in ReplyFormats, cut \in 0..MaxCut, w \in Wrappers}
    \cup {"I cannot read this image.", "{}", "[]"}

(***************************************************************************)
(* The parser as a state machine: a reply arrives, _parse_response runs.   *)
(***************************************************************************)
InitParse ==
    /\ response_text \in Replies
    /\ parse_pc = "received"
    /\ parse_result = Raised

\* profile = self._parse_response(response_text)   (extract_profile_data, l.304)
ParseResponse ==
    /\ parse_pc = "received"
    /\ parse_result' = _parse_response(response_text)
    /\ parse_pc' = "parsed"
    /\ UNCHANGED <<response_text, outside_parse>>

NextParse == ParseResponse

(***************************************************************************)
(* Claims about the parser                                                 *)
(***************************************************************************)
\* the reply is, as it stands, a JSON object of the Profile shape
ValidProfileJson(reply) ==
    JsonLoads(reply).ok /\ LinkedInProfile(JsonLoads(reply).v).kind = "profile"

\* LinkedInProfile(**json.loads(reply))
DirectParse(reply) == LinkedInProfile(JsonLoads(reply).v)

\* C3: for every reply that is already a valid JSON object of the Profile
\* shape, on one line or over several lines, _parse_response returns the
\* Profile that parsing the reply directly gives.
C3_RepairIdempotentOnValidJson ==
    (parse_pc = "parsed" /\ ValidProfileJson(response_text))
        => parse_result = DirectParse(response_text)

\* the text the repair steps produce, without the checks that raise
RepairedText(reply) ==
    IF Find(Strip(reply), "{") = -1 THEN Strip(reply)
    ELSE CleanJson(CutAtBraceEnd(StripFences(FromFirstBrace(reply))))

\* neither the repaired text nor its quote-escaped form is parseable JSON
Unparseable(reply) ==
    /\ ~JsonLoads(RepairedText(reply)).ok
    /\ ~JsonLoads(_manual_quote_escape(RepairedText(reply))).ok

\* C4: whenever the repair steps do not yield parseable JSON, _parse_response
\* does not fail: it returns the fallback Profile, whose headline and about
\* come from the substring search and whose experience and skills are empty.
C4_FallbackOnEveryMalformedReply ==
    (parse_pc = "parsed" /\ Unparseable(response_text))
        => parse_result = Returned(_create_fallback_profile(RepairedText(response_text)))

(***************************************************************************)
(* Telemetry (src/src/telemetry.py)                                        *)
(*                                                                         *)
(* A log entry keeps the fields the buffer logic can be observed through:  *)
(* "timestamp" is the clock reading of the call, modelled by the ordinal   *)
(* of the call in the process (entries loaded from an older file carry     *)
(* readings <= 0), and "event_type" is the kind of the event.              *)
(***************************************************************************)
\* len(self.local_logs) > 1000 ... self.local_logs[-1000:]
MaxLocalLogs == 1000

\* how many events one process logs
MaxEvents == 1002

EventTypes == {"vision_extraction", "strategy_generation", "user_feedback"}

\* what telemetry_logs.json may hold when the process starts
StartFiles ==
    {<<>>,
     <<[timestamp |-> -1, event_type |-> "vision_extraction", success |-> TRUE],
       [timestamp |-> 0, event_type |-> "user_feedback", feedback_type |-> "positive"]>>}

\* one run: the kinds of the odd and of the even calls, the outcome the
\* logged operations report, and whether the log file can be written
LogPlans ==
    [odd : EventTypes, even : EventTypes, success : BOOLEAN,
     writable : BOOLEAN, loaded : {Len(f) : f \in StartFiles}]

\* the kind of the n-th call of the run
PlannedType(plan, n) == IF n % 2 = 1 THEN plan.odd ELSE plan.even

\* self.local_logs = self.local_logs[:1000]
KeepOldest(logs, log_data) ==
    LET appended == Append(logs, log_data)
    IN  IF Len(appended) > MaxLocalLogs
        THEN SubSeq(appended, 1, MaxLocalLogs)
        ELSE appended

\* self.local_logs.append(log_data); keep self.local_logs[-1000:]
AppendCapped(logs, log_data) ==
    LET appended == Append(logs, log_data)
    IN  IF Len(appended) > MaxLocalLogs
        THEN SubSeq(appended, Len(appended) - MaxLocalLogs + 1, Len(appended))
        ELSE appended

\* _save_logs: the file takes the buffer, or the failure is swallowed
_save_logs(logs) == IF log_plan.writable THEN logs ELSE log_file

\* _add_log_entry: append, cap, save
_add_log_entry(log_data) ==
    /\ local_logs' = AppendCapped(local_logs, log_data)
    /\ log_file' = _save_logs(local_logs')
    /\ log_clock' = log_clock + 1

\* TelemetryLogger.__init__: _load_logs reads the file if there is one
InitTelemetry ==
    /\ log_plan \in LogPlans
    /\ log_file \in {f \in StartFiles : Len(f) = log_plan.loaded}
    /\ local_logs = log_file
    /\ log_clock = 0

log_vision_extraction ==
    /\ log_clock < MaxEvents
    /\ PlannedType(log_plan, log_clock + 1) = "vision_extraction"
    /\ _add_log_entry([timestamp |-> log_clock + 1,
                       event_type |-> "vision_extraction",
                       success |-> log_plan.success])
    /\ UNCHANGED <<log_plan, outside_telemetry>>

log_strategy_generation ==
    /\ log_clock < MaxEvents
    /\ PlannedType(log_plan, log_clock + 1) = "strategy_generation"
    /\ _add_log_entry([timestamp |-> log_clock + 1,
                       event_type |-> "strategy_generation",
                       success |-> log_plan.success])
    /\ UNCHANGED <<log_plan, outside_telemetry>>

log_user_feedback ==
    /\ log_clock < MaxEvents
    /\ PlannedType(log_plan, log_clock + 1) = "user_feedback"
    /\ _add_log_entry([timestamp |-> log_clock + 1,
                       event_type |-> "user_feedback",
                       feedback_type |-> IF log_plan.success THEN "positive" ELSE "negative"])
    /\ UNCHANGED <<log_plan, outside_telemetry>>

NextTelemetry ==
    \/ log_vision_extraction
    \/ log_strategy_generation
    \/ log_user_feedback

(***************************************************************************)
(* Claims about the telemetry buffer                                       *)
(***************************************************************************)
\* C2: for a logger whose buffer starts empty, after n logged events the
\* buffer holds min(n, 1000) entries and entry i is the event logged as
\* number n - len + i, of the kind that call had: the most recent events in
\* logging order.
C2_BufferKeepsMostRecent ==
    log_plan.loaded = 0 =>
        LET held == IF log_clock < MaxLocalLogs THEN log_clock ELSE MaxLocalLogs
        IN  /\ Len(local_logs) = held
            /\ \A i \in 1..held :
                  /\ local_logs[i].timestamp = log_clock - held + i
                  /\ local_logs[i].event_type = PlannedType(log_plan, log_clock - held + i)

\* 1001 events were logged into an empty buffer: 1000 are held and the first
\* one is gone
C2_Witness ==
    /\ log_plan.loaded = 0
    /\ log_clock = MaxLocalLogs + 1
    /\ Len(local_logs) = MaxLocalLogs
    /\ local_logs[1].timestamp = 2

(***************************************************************************)
(* More text operations                                                    *)
(***************************************************************************)
Digits == "0123456789"

\* any(char.isdigit() for char in s)
HasDigit(s) == \E i \in 0..(Len(s) - 1) : Contains(Digits, CharAt(s, i))

\* the 0-based positions where a word of s.split() starts
WordStarts(s) ==
    {i \in 0..(Len(s) - 1) :
        /\ CharAt(s, i) \notin PyWhitespace
        /\ (i = 0 \/ CharAt(s, i - 1) \in PyWhitespace)}

\* the word of s that starts at position i
WordAt(s, i) ==
    LET ends == {j \in (i + 1)..Len(s) : j = Len(s) \/ CharAt(s, j) \in PyWhitespace}
    IN  Slice(s, i, MinOf(ends))

\* set(s.split())
Words(s) == {WordAt(s, i) : i \in WordStarts(s)}

\* len(s.split())
WordCount(s) == Cardinality(WordStarts(s))

\* s * n
RECURSIVE Repeat(_, _)
Repeat(s, n) ==
    IF n = 0 THEN ""
    ELSE LET half == Repeat(s, n \div 2)
         IN  half \o half \o (IF n % 2 = 1 THEN s ELSE "")

\* str(n) for n >= 0
RECURSIVE IntToStr(_)
IntToStr(n) ==
    IF n < 10 THEN CharAt(Digits, n)
    ELSE IntToStr(n \div 10) \o CharAt(Digits, n % 10)

\* items[:n]
Take(items, n) == SubSeq(items, 1, IF Len(items) < n THEN Len(items) ELSE n)

\* [f(x) for x in items]
LowerAll(items) == [i \in 1..Len(items) |-> Lower(items[i])]

\* x in items
InSeq(x, items) == \E i \in 1..Len(items) : items[i] = x

(***************************************************************************)
(* Gap analyzer (src/src/profile_gap_analyzer.py)                          *)
(***************************************************************************)
\* the table of benchmarks, in the order the dict literal lists them; of each
\* role's benchmarks the two lists the gap analysis reads
PERFECT_PROFILE_BENCHMARKS ==
    <<
     [industry |-> "Technology", role |-> "Software Engineer",
      must_have_skills |->
        <<"Python", "JavaScript", "SQL", "Git", "AWS/Azure/GCP", "REST APIs", "Agile/Scrum", "CI/CD", "Docker">>,
      recommended_certifications |->
        <<"AWS Solutions Architect", "Google Cloud Professional", "Kubernetes Administrator", "Scrum Master">>],
     [industry |-> "Technology", role |-> "Product Manager",
      must_have_skills |->
        <<"Product Strategy", "Roadmap Planning", "User Research", "A/B Testing", "Agile/Scrum", "Data Analysis", "Stakeholder Management", "SQL">>,
      recommended_certifications |->
        <<"Product Management Certificate", "Scrum Product Owner", "Google Analytics", "Design Thinking">>],
     [industry |-> "Technology", role |-> "Data Scientist",
      must_have_skills |->
        <<"Python", "Machine Learning", "Deep Learning", "SQL", "TensorFlow/PyTorch", "Statistics", "Data Visualization", "NLP", "Computer Vision">>,
      recommended_certifications |->
        <<"AWS Machine Learning Specialty", "Google Professional ML Engineer", "TensorFlow Developer Certificate", "IBM Data Science Professional">>],
     [industry |-> "Technology", role |-> "Engineering Manager",
      must_have_skills |->
        <<"Team Leadership", "Technical Architecture", "Agile/Scrum", "Hiring", "Performance Management", "Strategic Planning", "Budget Management">>,
      recommended_certifications |->
        <<"Engineering Management Certificate", "Leadership Development", "AWS Solutions Architect", "Scrum Master">>],
     [industry |-> "Technology", role |-> "DevOps Engineer",
      must_have_skills |->
        <<"AWS/Azure/GCP", "Kubernetes", "Docker", "Terraform", "CI/CD", "Linux", "Python/Bash", "Monitoring", "Security">>,
      recommended_certifications |->
        <<"AWS DevOps Professional", "Kubernetes Administrator", "HashiCorp Terraform Associate", "Google Cloud DevOps Engineer">>],
     [industry |-> "Technology", role |-> "CTO",
      must_have_skills |->
        <<"Technical Strategy", "Team Building", "Architecture", "Fundraising", "Board Presentations", "Vendor Management", "Security", "Compliance">>,
      recommended_certifications |->
        <<"Executive Leadership Program", "AWS Solutions Architect Professional", "CISSP", "Board Governance">>],
     [industry |-> "Technology", role |-> "CSO",
      must_have_skills |->
        <<"Strategic Planning", "Market Analysis", "Business Development", "M&A", "Digital Transformation", "Automation", "Sales Strategy", "Operations">>,
      recommended_certifications |->
        <<"Executive Strategy Program", "Digital Transformation Certificate", "Six Sigma Black Belt", "Change Management">>],
     [industry |-> "Finance", role |-> "Financial Analyst",
      must_have_skills |->
        <<"Financial Modeling", "Excel", "SQL", "Tableau/Power BI", "FP&A", "Budgeting", "Forecasting", "Variance Analysis", "ERP Systems">>,
      recommended_certifications |->
        <<"CFA", "CPA", "Financial Modeling Certification", "Excel Expert", "Tableau Certification">>],
     [industry |-> "Finance", role |-> "Investment Banker",
      must_have_skills |->
        <<"Financial Modeling", "Valuation", "M&A", "DCF Analysis", "LBO Modeling", "Pitch Books", "Due Diligence", "Client Management", "Capital Markets">>,
      recommended_certifications |->
        <<"CFA", "Series 79", "Financial Modeling Certificate", "M&A Certificate">>],
     [industry |-> "Healthcare", role |-> "Healthcare Administrator",
      must_have_skills |->
        <<"Healthcare Operations", "Budget Management", "Regulatory Compliance", "Quality Improvement", "Staff Management", "EHR Systems", "Patient Safety">>,
      recommended_certifications |->
        <<"FACHE", "Lean Six Sigma Healthcare", "Healthcare Compliance", "Project Management Professional">>],
     [industry |-> "Marketing", role |-> "Marketing Manager",
      must_have_skills |->
        <<"Digital Marketing", "SEO/SEM", "Content Marketing", "Social Media", "Marketing Analytics", "Campaign Management", "Brand Strategy", "CRM">>,
      recommended_certifications |->
        <<"Google Analytics", "HubSpot Marketing", "Facebook Blueprint", "Content Marketing Institute">>],
     [industry |-> "Sales", role |-> "Sales Manager",
      must_have_skills |->
        <<"Sales Strategy", "Account Management", "Negotiation", "CRM (Salesforce)", "Pipeline Management", "Forecasting", "Team Leadership", "Enterprise Sales">>,
      recommended_certifications |->
        <<"Salesforce Administrator", "Sandler Sales Training", "Miller Heiman Strategic Selling", "SPIN Selling">>],
     [industry |-> "Operations", role |-> "Operations Manager",
      must_have_skills |->
        <<"Process Improvement", "Lean/Six Sigma", "Supply Chain", "Budget Management", "Team Leadership", "Vendor Management", "ERP Systems", "Quality Control">>,
      recommended_certifications |->
        <<"Six Sigma Black Belt", "PMP", "Lean Certification", "Supply Chain Management">>]
    >>

NoBenchmarks == [found |-> FALSE, must_have_skills |-> <<>>, recommended_certifications |-> <<>>]

FoundBenchmarks(b) ==
    [found |-> TRUE, must_have_skills |-> b.must_have_skills,
     recommended_certifications |-> b.recommended_certifications]

\* self.benchmarks.get(industry, self.benchmarks.get("Technology", {}))
IndustryBenchmarks(industry) ==
    LET OfIndustry(ind) == SelectSeq(PERFECT_PROFILE_BENCHMARKS, LAMBDA b : b.industry = ind)
    IN  IF OfIndustry(industry) # <<>> THEN OfIndustry(industry) ELSE OfIndustry("Technology")

\* the first entry of a sequence that satisfies Test, or NoBenchmarks
FirstBenchmarks(entries, Test(_)) ==
    IF \E n \in 1..Len(entries) : Test(entries[n])
    THEN FoundBenchmarks(entries[MinOf({n \in 1..Len(entries) : Test(entries[n])})])
    ELSE NoBenchmarks

\* role_keywords, in the order of the dict literal
role_keywords ==
    << <<"engineer", "Software Engineer">>, <<"developer", "Software Engineer">>,
       <<"product", "Product Manager">>, <<"data", "Data Scientist">>,
       <<"devops", "DevOps Engineer">>, <<"sre", "DevOps Engineer">>,
       <<"manager", "Engineering Manager">>, <<"director", "Engineering Manager">>,
       <<"vp", "Engineering Manager">>, <<"cto", "CTO">>, <<"cso", "CSO">>,
       <<"chief", "CTO">> >>

_find_best_role_match(role, industry_benchmarks) ==
    LET role_lower == Lower(role)
        Direct(b) == Lower(b.role) = role_lower
        Partial(b) == \E word \in Words(Lower(b.role)) : Contains(role_lower, word)
        hits == {n \in 1..Len(role_keywords) : Contains(role_lower, role_keywords[n][1])}
    IN  IF \E n \in 1..Len(industry_benchmarks) : Direct(industry_benchmarks[n])
        THEN FirstBenchmarks(industry_benchmarks, Direct)
        ELSE IF \E n \in 1..Len(industry_benchmarks) : Partial(industry_benchmarks[n])
        THEN FirstBenchmarks(industry_benchmarks, Partial)
        ELSE IF hits # {}
        THEN FirstBenchmarks(industry_benchmarks,
                             LAMBDA b : b.role = role_keywords[MinOf(hits)][2])
        ELSE NoBenchmarks

\* _create_generic_benchmarks: no must-have skills, no certifications
_create_generic_benchmarks ==
    [found |-> TRUE, must_have_skills |-> <<>>, recommended_certifications |-> <<>>]

\* get_perfect_profile_template, of which the gap analysis reads
\* skills.must_have and certifications.recommended
get_perfect_profile_template(industry, role) ==
    LET role_benchmarks == _find_best_role_match(role, IndustryBenchmarks(industry))
        benchmarks == IF role_benchmarks.found THEN role_benchmarks
                      ELSE _create_generic_benchmarks
    IN  [skills |-> [must_have |-> benchmarks.must_have_skills],
         certifications |-> [recommended |-> benchmarks.recommended_certifications]]

\* one entry of the gap list
Gap(category, gap_type, description, priority, action_required, effort_level, impact_score) ==
    [category |-> category, gap_type |-> gap_type, description |-> description,
     priority |-> priority, action_required |-> action_required,
     effort_level |-> effort_level, impact_score |-> impact_score]

\* <<g>> if the condition holds, else nothing
GapIf(cond, g) == IF cond THEN <<g>> ELSE <<>>

_analyze_headline_gaps(current, role) ==
    IF current = ""
    THEN <<Gap("headline", "missing", "No headline found", "critical",
               "Add a compelling headline like: \"" \o role
                   \o " | [Specialty] | [Key Achievement]\"",
               "quick_win", 10)>>
    ELSE GapIf(~Contains(current, "|"),
               Gap("headline", "incomplete",
                   "Headline lacks structure (use | to separate key elements)", "high",
                   "Restructure headline with format: \"Role | Specialty | Achievement\"",
                   "quick_win", 8))
         \o GapIf(Len(current) < 50,
               Gap("headline", "weak",
                   "Headline is too short (" \o IntToStr(Len(current))
                       \o " chars). Ideal: 100-200 characters", "medium",
                   "Expand headline with more specific details about your expertise and impact",
                   "quick_win", 6))
         \o GapIf(~HasDigit(current),
               Gap("headline", "incomplete",
                   "Headline lacks quantification (e.g., years of experience, team size)",
                   "medium",
                   "Add a metric to your headline (e.g., \"10+ Years Experience\" or \"Leading Team of 20+\")",
                   "quick_win", 5))

cta_keywords == {"connect", "reach out", "contact", "discuss", "collaborate", "email", "message"}

_analyze_about_gaps(current) ==
    IF current = ""
    THEN <<Gap("about", "missing", "No about section found", "critical",
               "Write a compelling 200-300 word about section highlighting your expertise and achievements",
               "moderate", 10)>>
    ELSE GapIf(WordCount(current) < 100,
               Gap("about", "weak",
                   "About section too short (" \o IntToStr(WordCount(current))
                       \o " words). Ideal: 200-300 words", "high",
                   "Expand your about section with more details about achievements, expertise, and value proposition",
                   "moderate", 8))
         \o GapIf(~HasDigit(current),
               Gap("about", "incomplete", "About section lacks quantified achievements", "high",
                   "Add specific metrics (e.g., \"increased revenue by 40%\", \"led team of 15\")",
                   "moderate", 9))
         \o GapIf(LET current_lower == Lower(current)
                  IN  ~\E keyword \in cta_keywords : Contains(current_lower, keyword),
               Gap("about", "incomplete", "About section lacks call to action", "medium",
                   "Add a call to action at the end (e.g., \"Let's connect to discuss...\")",
                   "quick_win", 5))

\* the gap one experience entry adds, if any
ExperienceEntryGaps(exp) ==
    IF exp.description = "" \/ Len(exp.description) < 50
    THEN <<Gap("experience", "incomplete",
               "Experience \"" \o exp.title \o "\" lacks detailed description", "high",
               "Add 3-5 bullet points with achievements for \"" \o exp.title \o "\"",
               "moderate", 8)>>
    ELSE GapIf(~HasDigit(exp.description),
               Gap("experience", "weak",
                   "Experience \"" \o exp.title \o "\" lacks quantified achievements", "high",
                   "Add metrics to \"" \o exp.title
                       \o "\" (e.g., percentages, dollar amounts, team sizes)",
                   "moderate", 7))

\* the concatenation of a sequence of sequences
RECURSIVE Flatten(_)
Flatten(seqs) == IF seqs = <<>> THEN <<>> ELSE Head(seqs) \o Flatten(Tail(seqs))

_analyze_experience_gaps(experiences) ==
    IF experiences = <<>>
    THEN <<Gap("experience", "missing", "No experience entries found", "critical",
               "Add your work experience with detailed descriptions and achievements",
               "significant", 10)>>
    ELSE Flatten([i \in 1..Len(experiences) |-> ExperienceEntryGaps(experiences[i])])

_analyze_skills_gaps(current_skills, ideal) ==
    LET skills_count == Len(current_skills)
        current_skills_lower == LowerAll(current_skills)
        missing_critical ==
            SelectSeq(ideal.must_have, LAMBDA skill : ~InSeq(Lower(skill), current_skills_lower))
    IN  (IF skills_count < 20
         THEN <<Gap("skills", "incomplete",
                    "Only " \o IntToStr(skills_count) \o " skills listed. Ideal: 50-100 skills",
                    "high", "Add more skills including technical, soft skills, and tools",
                    "quick_win", 7)>>
         ELSE GapIf(skills_count < 50,
                    Gap("skills", "weak",
                        IntToStr(skills_count)
                            \o " skills listed. Consider adding more for better visibility",
                        "medium", "Add industry-specific and emerging technology skills",
                        "quick_win", 5)))
        \o GapIf(missing_critical # <<>>,
                 Gap("skills", "missing",
                     "Missing critical skills: " \o Join(Take(missing_critical, 5), ", "),
                     "high",
                     "Add these must-have skills: " \o Join(missing_critical, ", "),
                     "quick_win", 8))

cert_keywords ==
    {"certified", "certification", "certificate", "cfa", "cpa", "pmp", "aws", "azure", "gcp"}

_analyze_certification_gaps(skills, about, ideal) ==
    LET combined_lower == Lower(Join(skills, " ") \o " " \o about)
        has_certs == \E keyword \in cert_keywords : Contains(combined_lower, keyword)
    IN  GapIf(~has_certs,
              Gap("certifications", "missing", "No certifications detected in profile", "medium",
                  IF ideal.recommended # <<>>
                  THEN "Consider obtaining: " \o Join(Take(ideal.recommended, 3), ", ")
                  ELSE "Add relevant industry certifications",
                  "significant", 6))

\* priority_order.get(priority, 4)
priority_order(priority) ==
    CASE priority = "critical" -> 0
      [] priority = "high" -> 1
      [] priority = "medium" -> 2
      [] priority = "low" -> 3
      [] OTHER -> 4

\* sorted(items, key=...): a stable sort, Before(a, b) meaning key(a) < key(b)
StableSort(items, Before(_, _)) ==
    LET n == Len(items)
        \* the place of item i in the result
        Place(i) == 1 + Cardinality({j \in 1..n :
                        \/ Before(items[j], items[i])
                        \/ (j < i /\ ~Before(items[i], items[j]))})
    IN  [p \in 1..n |-> items[CHOOSE i \in 1..n : Place(i) = p]]

\* sorted by (priority rank, impact_score), the lower impact first
PrioritizeLowImpactFirst(gaps) ==
    StableSort(gaps, LAMBDA a, b :
        \/ priority_order(a.priority) < priority_order(b.priority)
        \/ /\ priority_order(a.priority) = priority_order(b.priority)
           /\ a.impact_score < b.impact_score)

\* sorted(gaps, key=lambda x: (priority_order.get(x['priority'], 4), -x['impact_score']))
_prioritize_gaps(gaps) ==
    StableSort(gaps, LAMBDA a, b :
        \/ priority_order(a.priority) < priority_order(b.priority)
        \/ /\ priority_order(a.priority) = priority_order(b.priority)
           /\ -a.impact_score < -b.impact_score)

\* sum(g['impact_score'] for g in gaps)
RECURSIVE TotalImpact(_)
TotalImpact(gaps) ==
    IF gaps = <<>> THEN 0 ELSE Head(gaps).impact_score + TotalImpact(Tail(gaps))

\* the highest impact_score a gap carries: max_impact = len(gaps) * 10
MaxImpactScore == 10

\* int((total_impact / max_impact) * 50) in double arithmetic.  The quotient
\* and the product are each rounded to a double; the result is the exact
\* floor of 50 * total / max except when the ratio is 29/50, where the
\* product is 28.999999999999996 and truncates to 28 (enumerated for every
\* total <= max <= 400).
FloatDeduction(total_impact, max_impact) ==
    IF 50 * total_impact = 29 * max_impact THEN 28
    ELSE (50 * total_impact) \div max_impact

\* round(x) of Python for x = numerator / denominator: the nearest integer,
\* a tie going to the even one
Round(numerator, denominator) ==
    LET q == numerator \div denominator
        r == numerator % denominator
    IN  IF 2 * r < denominator THEN q
        ELSE IF 2 * r > denominator THEN q + 1
        ELSE IF q % 2 = 0 THEN q ELSE q + 1

\* the score with the deduction rounded to the nearest integer:
\* max(30, 95 - min(50, round(50 * total_impact / (10 * gap_count))))
CompletenessScoreRounded(gaps) ==
    IF gaps = <<>> THEN 95
    ELSE LET raw == Round(50 * TotalImpact(gaps), MaxImpactScore * Len(gaps))
             deduction == IF raw > 50 THEN 50 ELSE raw
         IN  IF 95 - deduction < 30 THEN 30 ELSE 95 - deduction

_calculate_completeness_score(gaps) ==
    IF gaps = <<>> THEN 95
    ELSE LET total_impact == TotalImpact(gaps)
             max_impact == Len(gaps) * MaxImpactScore
             raw == FloatDeduction(total_impact, max_impact)
             deduction == IF raw > 50 THEN 50 ELSE raw
         IN  IF 95 - deduction < 30 THEN 30 ELSE 95 - deduction

\* the gaps analyze_gaps collects, in the order it collects them
CollectedGaps(current_profile, industry, role) ==
    LET perfect_template == get_perfect_profile_template(industry, role)
    IN  _analyze_headline_gaps(current_profile.headline, role)
        \o _analyze_about_gaps(current_profile.about)
        \o _analyze_experience_gaps(current_profile.experience)
        \o _analyze_skills_gaps(current_profile.skills, perfect_template.skills)
        \o _analyze_certification_gaps(current_profile.skills, current_profile.about,
                                       perfect_template.certifications)

\* the actions of the roadmap phase for one effort level, if it has gaps
RoadmapPhase(sorted_gaps, effort_level, phase) ==
    LET of_level == SelectSeq(sorted_gaps, LAMBDA g : g.effort_level = effort_level)
    IN  IF of_level = <<>> THEN <<>>
        ELSE <<[phase |-> phase,
                actions |-> [i \in 1..Len(Take(of_level, 5)) |-> of_level[i].action_required]]>>

_generate_improvement_roadmap(sorted_gaps) ==
    RoadmapPhase(sorted_gaps, "quick_win", "Phase 1: Quick Wins")
    \o RoadmapPhase(sorted_gaps, "moderate", "Phase 2: Content Enhancement")
    \o RoadmapPhase(sorted_gaps, "significant", "Phase 3: Long-term Development")

analyze_gaps(current_profile, industry, role) ==
    LET gaps == CollectedGaps(current_profile, industry, role)
        sorted_gaps == _prioritize_gaps(gaps)
    IN  [gaps |-> sorted_gaps,
         completeness_score |-> _calculate_completeness_score(gaps),
         quick_wins |-> Take(SelectSeq(sorted_gaps, LAMBDA g : g.effort_level = "quick_win"), 5),
         high_impact |-> Take(SelectSeq(sorted_gaps,
                                 LAMBDA g : g.priority \in {"critical", "high"}), 5),
         roadmap |-> _generate_improvement_roadmap(sorted_gaps)]

(***************************************************************************)
(* The gap analysis as a state machine: a profile and a target are given,  *)
(* analyze_gaps runs.                                                      *)
(***************************************************************************)
GapHeadlines ==
    {"", "Engineer", "Dev | Ops",
     "Senior Backend Engineer | Payments | Scaling to 10M users",
     "Engineer who builds dependable payment platforms for banks"}

LongAbout == Repeat("so ", 98) \o "since 2015. Message me."

GapAbouts == {"", "I code", "Led 5 teams, AWS certified. Let's connect.", LongAbout}

ShortDescription == "Built things"
PlainDescription == "Built and operated the billing services of the whole company"
MeasuredDescription == "Cut the latency of the billing services by 40% in one quarter"

Job(title, description) ==
    [title |-> title, company |-> "Acme", dates |-> "2020 - Present",
     description |-> description]

GapExperiences ==
    {<<>>,
     <<Job("Intern", ShortDescription)>>,
     <<Job("Engineer", PlainDescription)>>,
     <<Job("Lead", MeasuredDescription), Job("Engineer", PlainDescription),
       Job("Intern", "")>>}

SoftwareEngineerSkills == PERFECT_PROFILE_BENCHMARKS[1].must_have_skills

GapSkills ==
    {<<>>,
     SoftwareEngineerSkills,
     [i \in 1..20 |-> "Teamwork"],
     SoftwareEngineerSkills \o [i \in 1..41 |-> "Teamwork"]}

GapProfiles ==
    [headline : GapHeadlines, about : GapAbouts, experience : GapExperiences,
     skills : GapSkills]

GapTargets ==
    {[industry |-> "Technology", role |-> "Software Engineer"],
     [industry |-> "Technology", role |-> "Data Engineer"],
     [industry |-> "Technology", role |-> "DevOps Lead"],
     [industry |-> "Technology", role |-> "Senior DevOps Engineer"],
     [industry |-> "Finance", role |-> "Trader"],
     [industry |-> "Retail", role |-> "chief of staff"]}

NoAnalysis ==
    [gaps |-> <<>>, completeness_score |-> 0, quick_wins |-> <<>>, high_impact |-> <<>>,
     roadmap |-> <<>>]

InitGap ==
    /\ gap_profile \in GapProfiles
    /\ gap_target \in GapTargets
    /\ gap_pc = "ready"
    /\ gap_analysis = NoAnalysis

AnalyzeGaps ==
    /\ gap_pc = "ready"
    /\ gap_analysis' = analyze_gaps(gap_profile, gap_target.industry, gap_target.role)
    /\ gap_pc' = "analyzed"
    /\ UNCHANGED <<gap_profile, gap_target, outside_gap>>

NextGap == AnalyzeGaps

GapIdle ==
    /\ gap_profile = EmptyProfile
    /\ gap_target = [industry |-> "Technology", role |-> "Software Engineer"]
    /\ gap_pc = "idle"
    /\ gap_analysis = NoAnalysis

(***************************************************************************)
(* The completeness score as a state machine: the score of a gap list,     *)
(* then of the list with one more gap, and so on.                          *)
(***************************************************************************)
\* how many gaps a scored list holds
MaxGaps == 5

\* a gap of a given impact_score
GapOfImpact(impact_score) ==
    Gap("skills", "weak", "", "medium", "", "quick_win", impact_score)

InitCompleteness ==
    /\ scored_gaps = <<>>
    /\ completeness_score = _calculate_completeness_score(<<>>)
    /\ previous_score = completeness_score

\* _calculate_completeness_score(gaps + [g])
ScoreWithOneMoreGap ==
    /\ Len(scored_gaps) < MaxGaps
    /\ \E impact_score \in 1..MaxImpactScore :
          scored_gaps' = Append(scored_gaps, GapOfImpact(impact_score))
    /\ completeness_score' = _calculate_completeness_score(scored_gaps')
    /\ previous_score' = completeness_score
    /\ UNCHANGED outside_completeness

NextCompleteness == ScoreWithOneMoreGap

CompletenessIdle ==
    /\ scored_gaps = <<>>
    /\ completeness_score = 95
    /\ previous_score = 95

(***************************************************************************)
(* Claims about the gap analyzer                                           *)
(***************************************************************************)
\* C5: the completeness score never rises when a gap with impact_score in
\* 1..10 is added to the gap list: the score of the longer list is at most
\* the score of the list before the addition.
C5_CompletenessNeverRises == completeness_score <= previous_score

\* gap a may stand before gap b in a list ordered by (priority rank,
\* impact_score descending)
InOrder(a, b) ==
    \/ priority_order(a.priority) < priority_order(b.priority)
    \/ /\ priority_order(a.priority) = priority_order(b.priority)
       /\ a.impact_score >= b.impact_score

\* C6: the gap list analyze_gaps returns is ordered by (priority rank,
\* impact_score descending): every gap may stand before every later one, so
\* a critical gap precedes a medium gap and, within one priority, a higher
\* impact_score never comes after a lower one.
C6_GapsOrderedByPriorityThenImpact ==
    gap_pc = "analyzed" =>
        \A i, j \in 1..Len(gap_analysis.gaps) :
            i < j => InOrder(gap_analysis.gaps[i], gap_analysis.gaps[j])

\* an analysis whose collected gaps were not in order: critical and medium
\* gaps are among them and a gap of lower impact was collected before one of
\* the same priority and higher impact
C6_Witness ==
    /\ gap_pc = "analyzed"
    /\ LET collected == CollectedGaps(gap_profile, gap_target.industry, gap_target.role)
       IN  /\ \E i, j \in 1..Len(collected) :
                 /\ i < j
                 /\ collected[i].priority = collected[j].priority
                 /\ collected[i].impact_score < collected[j].impact_score
           /\ \E i, j \in 1..Len(collected) :
                 /\ i < j
                 /\ collected[i].priority = "medium"
                 /\ collected[j].priority = "critical"
           /\ Len(gap_analysis.gaps) = Len(collected)
           /\ gap_analysis.gaps # collected

(***************************************************************************)
(* Report sections (src/src/one_click_implementation.py)                   *)
(***************************************************************************)
section_headers ==
    <<"OVERALL PROFILE REVIEW", "HEADLINE OPTIMIZATION", "ABOUT SECTION COMPLETE REWRITE",
      "EXPERIENCE SECTION ENHANCEMENT", "SKILLS STRATEGY", "RECOMMENDATIONS STRATEGY",
      "CONTENT & ENGAGEMENT PLAN">>

\* section_headers.index(name), 1-based; 0 when the name is not in the list
HeaderIndex(name) ==
    IF InSeq(name, section_headers)
    THEN MinOf({n \in 1..Len(section_headers) : section_headers[n] = name})
    ELSE 0

SectionText(text) == [kind |-> "text", text |-> text]

\* section_headers.index raised ValueError
SectionError == [kind |-> "error", text |-> ""]

\* the loop that runs over every later header and keeps the last one found
\* after the section instead of stopping at the first
FindSectionWithoutBreak(a_report, name) ==
    LET start_pos == Find(a_report, name)
        current_index == HeaderIndex(name)
        later == {n \in (current_index + 1)..Len(section_headers) :
                     /\ Find(a_report, section_headers[n]) # -1
                     /\ Find(a_report, section_headers[n]) > start_pos}
        end_pos == IF later = {} THEN Len(a_report)
                   ELSE Find(a_report, section_headers[CHOOSE n \in later :
                                                        \A m \in later : m <= n])
    IN  IF start_pos = -1 THEN SectionText("")
        ELSE IF current_index = 0 THEN SectionError
        ELSE SectionText(Slice(a_report, start_pos, end_pos))

_find_section(a_report, name) ==
    LET start_pos == Find(a_report, name)
        current_index == HeaderIndex(name)
        \* the later headers, in list order, that the loop would stop at
        later == {n \in (current_index + 1)..Len(section_headers) :
                     /\ Find(a_report, section_headers[n]) # -1
                     /\ Find(a_report, section_headers[n]) > start_pos}
        end_pos == IF later = {} THEN Len(a_report)
                   ELSE Find(a_report, section_headers[MinOf(later)])
    IN  IF start_pos = -1 THEN SectionText("")
        ELSE IF current_index = 0 THEN SectionError
        ELSE SectionText(Slice(a_report, start_pos, end_pos))

(***************************************************************************)
(* Section extraction as a state machine: a report and a section name are  *)
(* given, _find_section runs.  A report is a preface followed by numbered  *)
(* sections in some order, as the strategy prompt asks the model to write  *)
(* them.                                                                   *)
(***************************************************************************)
\* how many sections a report holds
MaxSections == 3

\* the section names the callers of _find_section pass
CalledSections ==
    {"HEADLINE OPTIMIZATION", "ABOUT SECTION COMPLETE REWRITE",
     "EXPERIENCE SECTION ENHANCEMENT", "SKILLS STRATEGY"}

Prefaces ==
    {"", "Your LinkedIn plan\n",
     "The ABOUT SECTION COMPLETE REWRITE matters most, read it first.\n"}

\* what the report says under a heading
SectionBody(header) ==
    CASE header = "HEADLINE OPTIMIZATION" ->
             "1. Staff Engineer | Payments | 10M users\n"
      [] header = "ABOUT SECTION COMPLETE REWRITE" ->
             "Recommended Version\nI build payment systems.\n"
      [] header = "EXPERIENCE SECTION ENHANCEMENT" ->
             "CURRENT: Built things\nRECOMMENDED: Cut latency by 40%\n"
      [] OTHER -> "- Python\n- SQL\n"

\* the sections of a report: distinct headers in any order
SectionOrders ==
    {order \in UNION {[1..n -> CalledSections] : n \in 0..MaxSections} :
        \A i, j \in 1..Len(order) : i # j => order[i] # order[j]}

\* the text of the sections, each under its numbered heading
RECURSIVE SectionsText(_, _)
SectionsText(order, n) ==
    IF n > Len(order) THEN ""
    ELSE IntToStr(n) \o ". " \o order[n] \o "\n" \o SectionBody(order[n])
         \o SectionsText(order, n + 1)

Reports == {preface \o SectionsText(order, 1) : preface \in Prefaces, order \in SectionOrders}

InitSection ==
    /\ report \in Reports
    /\ section_name \in CalledSections
    /\ section_pc = "ready"
    /\ section_result = SectionText("")

FindSection ==
    /\ section_pc = "ready"
    /\ section_result' = _find_section(report, section_name)
    /\ section_pc' = "found"
    /\ UNCHANGED <<report, section_name, outside_section>>

NextSection == FindSection

SectionIdle ==
    /\ report = ""
    /\ section_name = ""
    /\ section_pc = "idle"
    /\ section_result = SectionText("")

(***************************************************************************)
(* Claims about section extraction                                         *)
(***************************************************************************)
HeadlineHeading == "HEADLINE OPTIMIZATION"
AboutHeading == "ABOUT SECTION COMPLETE REWRITE"

\* the report holds the headline heading and, somewhere after it, the about
\* heading
HeadlineThenAbout(a_report) ==
    /\ Find(a_report, HeadlineHeading) # -1
    /\ FindFrom(a_report, AboutHeading, Find(a_report, HeadlineHeading)) # -1

\* C7 as stated: for a report that holds the heading 'HEADLINE
\* OPTIMIZATION', then content, then the heading 'ABOUT SECTION COMPLETE
\* REWRITE', extracting 'HEADLINE OPTIMIZATION' returns exactly the text
\* between the two headings: it starts after the first heading and stops
\* before the second.
C7_ExactlyTheTextBetweenTheHeadings ==
    (/\ section_pc = "found"
     /\ section_name = HeadlineHeading
     /\ HeadlineThenAbout(report))
        => LET after_heading == Find(report, HeadlineHeading) + Len(HeadlineHeading)
           IN  section_result =
                   SectionText(Slice(report, after_heading,
                                     FindFrom(report, AboutHeading, after_heading)))

\* C7 as amended: when the first 'ABOUT SECTION COMPLETE REWRITE' of the
\* report comes after its first 'HEADLINE OPTIMIZATION', extracting
\* 'HEADLINE OPTIMIZATION' returns the report from the start of that heading,
\* the heading included, up to the about heading, which is excluded with
\* everything after it.
C7_HeadingAndTextUpToNextHeading ==
    (/\ section_pc = "found"
     /\ section_name = HeadlineHeading
     /\ Find(report, HeadlineHeading) # -1
     /\ Find(report, AboutHeading) > Find(report, HeadlineHeading))
        => section_result =
               SectionText(Slice(report, Find(report, HeadlineHeading),
                                 Find(report, AboutHeading)))

\* the headline section was extracted from a report where the about heading
\* follows it and more sections follow the about section
C7_Witness ==
    /\ section_pc = "found"
    /\ section_name = HeadlineHeading
    /\ Find(report, HeadlineHeading) > 0
    /\ Find(report, AboutHeading) > Find(report, HeadlineHeading)
    /\ Find(report, "SKILLS STRATEGY") > Find(report, AboutHeading)
    /\ section_result.kind = "text"
    /\ Len(section_result.text) > Len(HeadlineHeading)

(***************************************************************************)
(* Content scorer (src/src/content_scorer.py)                              *)
(***************************************************************************)
QualityMetrics(score, feedback, suggestions) ==
    [score |-> score, max_score |-> 100, feedback |-> feedback, suggestions |-> suggestions]

\* self.industry_keywords.get(target_industry, [])
industry_keywords(target_industry) ==
    CASE target_industry = "Technology" ->
             <<"software", "development", "programming", "coding", "tech", "digital",
               "data", "ai", "ml">>
      [] target_industry = "Finance" ->
             <<"financial", "investment", "banking", "trading", "risk", "compliance",
               "fintech">>
      [] target_industry = "Healthcare" ->
             <<"healthcare", "medical", "clinical", "patient", "health", "wellness",
               "pharmaceutical">>
      [] target_industry = "Marketing" ->
             <<"marketing", "brand", "digital", "social", "content", "campaign",
               "analytics">>
      [] target_industry = "Sales" ->
             <<"sales", "revenue", "growth", "client", "business", "account",
               "relationship">>
      [] OTHER -> <<>>

action_verbs ==
    <<"led", "managed", "developed", "created", "implemented", "launched", "grew",
      "increased", "reduced", "improved", "optimized", "achieved">>

quantifiable_indicators ==
    <<"%", "$", "number", "count", "increase", "decrease", "growth", "reduction",
      "million", "billion", "thousand", "hundred", "times", "fold">>

\* sum(1 for item in items if item in text)
CountIn(items, text) == Cardinality({n \in 1..Len(items) : Contains(text, items[n])})

\* any(item in text for item in items)
AnyIn(items, text) == \E n \in 1..Len(items) : Contains(text, items[n])

\* the feedback and the suggestion of a check that failed, nothing otherwise
Remark(passed, text) == IF passed THEN <<>> ELSE <<text>>

Points(passed, points) == IF passed THEN points ELSE 0

value_words == <<"helping", "driving", "delivering", "creating", "solving">>

passive_words == <<"looking", "seeking", "unemployed">>

\* the headline scorer with the ends of the length window left out
ScoreHeadlineOpenWindow(headline, target_role) ==
    LET lower == Lower(headline)
        length_ok == 60 < Len(headline) /\ Len(headline) < 120
        value_ok == AnyIn(value_words, lower)
        role_ok == Contains(lower, Lower(target_role))
        tone_ok == ~AnyIn(passive_words, lower)
    IN  QualityMetrics(
            Points(length_ok, 25) + Points(value_ok, 25) + Points(role_ok, 25)
                + Points(tone_ok, 25),
            Remark(length_ok, "Headline length is not optimal")
                \o Remark(value_ok, "Missing clear value proposition")
                \o Remark(role_ok, "Target role not mentioned")
                \o Remark(tone_ok, "Avoid passive language"),
            Remark(length_ok, "Aim for 60-120 characters for maximum impact")
                \o Remark(value_ok, "Include what value you provide to employers")
                \o Remark(role_ok, "Include '" \o target_role \o "' in your headline")
                \o Remark(tone_ok, "Use active, confident language"))

\* the headline scorer with the role found when any word of it is found
ScoreHeadlineAnyRoleWord(headline, target_role) ==
    LET lower == Lower(headline)
        length_ok == 60 <= Len(headline) /\ Len(headline) <= 120
        value_ok == AnyIn(value_words, lower)
        role_ok == \E word \in Words(Lower(target_role)) : Contains(lower, word)
        tone_ok == ~AnyIn(passive_words, lower)
    IN  QualityMetrics(
            Points(length_ok, 25) + Points(value_ok, 25) + Points(role_ok, 25)
                + Points(tone_ok, 25),
            Remark(length_ok, "Headline length is not optimal")
                \o Remark(value_ok, "Missing clear value proposition")
                \o Remark(role_ok, "Target role not mentioned")
                \o Remark(tone_ok, "Avoid passive language"),
            Remark(length_ok, "Aim for 60-120 characters for maximum impact")
                \o Remark(value_ok, "Include what value you provide to employers")
                \o Remark(role_ok, "Include '" \o target_role \o "' in your headline")
                \o Remark(tone_ok, "Use active, confident language"))

_score_headline(headline, target_role) ==
    LET lower == Lower(headline)
        length_ok == 60 <= Len(headline) /\ Len(headline) <= 120
        value_ok == AnyIn(value_words, lower)
        role_ok == Contains(lower, Lower(target_role))
        tone_ok == ~AnyIn(passive_words, lower)
    IN  QualityMetrics(
            Points(length_ok, 25) + Points(value_ok, 25) + Points(role_ok, 25)
                + Points(tone_ok, 25),
            Remark(length_ok, "Headline length is not optimal")
                \o Remark(value_ok, "Missing clear value proposition")
                \o Remark(role_ok, "Target role not mentioned")
                \o Remark(tone_ok, "Avoid passive language"),
            Remark(length_ok, "Aim for 60-120 characters for maximum impact")
                \o Remark(value_ok, "Include what value you provide to employers")
                \o Remark(role_ok, "Include '" \o target_role \o "' in your headline")
                \o Remark(tone_ok, "Use active, confident language"))

story_indicators == <<"journey", "passion", "mission", "vision", "story">>

cta_indicators == <<"connect", "reach out", "contact", "opportunity", "collaborate">>

\* the about checks, given the outcome of the length check
AboutMetrics(about, target_industry, length_ok) ==
    LET lower == Lower(about)
        word_count == WordCount(about)
        keywords == industry_keywords(target_industry)
        keyword_count == CountIn(LowerAll(keywords), lower)
        quant_count == CountIn(quantifiable_indicators, lower)
        story_ok == AnyIn(story_indicators, lower)
        keywords_ok == keyword_count >= 3
        quant_ok == quant_count >= 2
        cta_ok == AnyIn(cta_indicators, lower)
    IN  QualityMetrics(
            Points(length_ok, 20) + Points(story_ok, 20) + Points(keywords_ok, 20)
                + Points(quant_ok, 20) + Points(cta_ok, 20),
            Remark(length_ok, "About section is " \o IntToStr(word_count)
                                  \o " words (ideal: 300-500)")
                \o Remark(story_ok, "Missing storytelling elements")
                \o Remark(keywords_ok, "Only " \o IntToStr(keyword_count)
                                           \o " industry keywords found")
                \o Remark(quant_ok, "Missing quantifiable achievements")
                \o Remark(cta_ok, "Missing call to action"),
            Remark(length_ok, "Expand your about section to 300-500 words")
                \o Remark(story_ok, "Add your career story and passion")
                \o Remark(keywords_ok, "Include more " \o target_industry
                                           \o " industry keywords")
                \o Remark(quant_ok, "Add specific numbers and metrics")
                \o Remark(cta_ok, "Add a clear call to action for recruiters"))

\* the about scorer with the ends of the word-count window left out
ScoreAboutOpenWindow(about, target_industry) ==
    AboutMetrics(about, target_industry, 300 < WordCount(about) /\ WordCount(about) < 500)

_score_about_section(about, target_industry) ==
    AboutMetrics(about, target_industry, 300 <= WordCount(about) /\ WordCount(about) <= 500)

\* int((part / whole) * 100) in double arithmetic: the exact floor of
\* 100 * part / whole, except that the doubles 0.29, 0.57 and 0.58 times 100
\* fall just below 29, 57 and 58 and truncate to one less (enumerated for
\* every part <= whole <= 1500, whole a multiple of 25).
FloatPercent(part, whole) ==
    LET exact == (100 * part) \div whole
    IN  IF (100 * part) % whole = 0 /\ exact \in {29, 57, 58} THEN exact - 1 ELSE exact

impact_indicators == <<"resulted in", "led to", "achieved", "improved", "increased">>

\* the checks of one experience entry
ExperienceChecks(exp) ==
    LET lower == Lower(exp.description)
    IN  [verbs_ok |-> CountIn(action_verbs, lower) >= 2,
         metrics_ok |-> CountIn(quantifiable_indicators, lower) >= 1,
         impact_ok |-> AnyIn(impact_indicators, lower)]

\* exp_score
ExperienceEntryScore(exp) ==
    LET checks == ExperienceChecks(exp)
    IN  Points(checks.verbs_ok, 8) + Points(checks.metrics_ok, 9) + Points(checks.impact_ok, 8)

ExperienceEntryFeedback(exp) ==
    LET checks == ExperienceChecks(exp)
    IN  Remark(checks.verbs_ok, "Experience '" \o exp.title \o "' lacks action verbs")
        \o Remark(checks.metrics_ok, "Experience '" \o exp.title \o "' lacks metrics")
        \o Remark(checks.impact_ok, "Experience '" \o exp.title \o "' lacks impact statements")

ExperienceEntrySuggestions(exp) ==
    LET checks == ExperienceChecks(exp)
    IN  Remark(checks.verbs_ok, "Start bullet points with action verbs")
        \o Remark(checks.metrics_ok, "Add specific numbers and results")
        \o Remark(checks.impact_ok, "Show the impact of your work")

\* sum(...) over a sequence of numbers
RECURSIVE SumOf(_)
SumOf(numbers) == IF numbers = <<>> THEN 0 ELSE Head(numbers) + SumOf(Tail(numbers))

\* the experience scorer without the early return for an empty list
ScoreExperienceWithoutEarlyReturn(experiences) ==
    LET total_possible_score == Len(experiences) * 25
        actual_score == SumOf([i \in 1..Len(experiences) |->
                                  ExperienceEntryScore(experiences[i])])
    IN  QualityMetrics(
            IF total_possible_score > 0
            THEN FloatPercent(actual_score, total_possible_score) ELSE 0,
            Flatten([i \in 1..Len(experiences) |->
                        ExperienceEntryFeedback(experiences[i])]),
            Flatten([i \in 1..Len(experiences) |->
                        ExperienceEntrySuggestions(experiences[i])]))

_score_experience_section(experiences) ==
    IF experiences = <<>>
    THEN QualityMetrics(0, <<"No experience entries found">>, <<"Add your work experience">>)
    ELSE LET total_possible_score == Len(experiences) * 25
             actual_score == SumOf([i \in 1..Len(experiences) |->
                                       ExperienceEntryScore(experiences[i])])
         IN  QualityMetrics(
                 IF total_possible_score > 0
                 THEN FloatPercent(actual_score, total_possible_score) ELSE 0,
                 Flatten([i \in 1..Len(experiences) |->
                             ExperienceEntryFeedback(experiences[i])]),
                 Flatten([i \in 1..Len(experiences) |->
                             ExperienceEntrySuggestions(experiences[i])]))

technical_indicators == <<"python", "java", "javascript", "sql", "aws", "docker", "kubernetes">>

soft_indicators == <<"leadership", "communication", "teamwork", "management", "strategy">>

\* [skill for skill in skills if any(indicator in skill.lower() for indicator in indicators)]
SkillsWith(skills, indicators) == SelectSeq(skills, LAMBDA skill : AnyIn(indicators, Lower(skill)))

_score_skills_section(skills, target_industry) ==
    IF skills = <<>>
    THEN QualityMetrics(0, <<"No skills listed">>, <<"Add your relevant skills">>)
    ELSE LET relevant_skills == SkillsWith(skills, industry_keywords(target_industry))
             count_ok == 10 <= Len(skills) /\ Len(skills) <= 15
             relevant_ok == Len(relevant_skills) >= 5
             diverse_ok == /\ SkillsWith(skills, technical_indicators) # <<>>
                           /\ SkillsWith(skills, soft_indicators) # <<>>
         IN  QualityMetrics(
                 Points(count_ok, 30) + Points(relevant_ok, 40) + Points(diverse_ok, 30),
                 Remark(count_ok, "Skills count: " \o IntToStr(Len(skills))
                                      \o " (ideal: 10-15)")
                     \o Remark(relevant_ok, "Only " \o IntToStr(Len(relevant_skills))
                                                \o " industry-relevant skills")
                     \o Remark(diverse_ok, "Balance technical and soft skills"),
                 Remark(count_ok, "Aim for 10-15 relevant skills")
                     \o Remark(relevant_ok, "Add more " \o target_industry
                                                \o " specific skills")
                     \o Remark(diverse_ok, "Include both technical and soft skills"))

\* the section scores for which the double sum
\* (h/100)*0.2*100 + (a/100)*0.3*100 + (e/100)*0.35*100 + (s/100)*0.15*100
\* falls just below the whole number it equals exactly, so that int() gives
\* one less (enumerated over every headline score in 0, 25, .., 100, about
\* score in 0, 20, .., 100, experience score in 0..100 and skills score in
\* 0, 30, 40, 60, 70, 100)
OverallFloatShort == {<<0, 0, 20, 0>>, <<0, 0, 40, 0>>, <<0, 0, 70, 30>>, <<0, 0, 80, 0>>}

\* the overall score without the weights: the section scores added up
ScoreOverallUnweighted(section_scores) ==
    QualityMetrics(
        section_scores.headline.score + section_scores.about.score
            + section_scores.experience.score + section_scores.skills.score,
        section_scores.headline.feedback \o section_scores.about.feedback
            \o section_scores.experience.feedback \o section_scores.skills.feedback,
        section_scores.headline.suggestions \o section_scores.about.suggestions
            \o section_scores.experience.suggestions \o section_scores.skills.suggestions)

_calculate_overall_profile_score(section_scores) ==
    LET h == section_scores.headline.score
        a == section_scores.about.score
        e == section_scores.experience.score
        s == section_scores.skills.score
        exact == (20 * h + 30 * a + 35 * e + 15 * s) \div 100
    IN  QualityMetrics(
            IF <<h, a, e, s>> \in OverallFloatShort THEN exact - 1 ELSE exact,
            section_scores.headline.feedback \o section_scores.about.feedback
                \o section_scores.experience.feedback \o section_scores.skills.feedback,
            section_scores.headline.suggestions \o section_scores.about.suggestions
                \o section_scores.experience.suggestions \o section_scores.skills.suggestions)

calculate_overall_score(profile_data_arg, target_industry, target_role) ==
    LET section_scores ==
            [headline |-> _score_headline(profile_data_arg.headline, target_role),
             about |-> _score_about_section(profile_data_arg.about, target_industry),
             experience |-> _score_experience_section(profile_data_arg.experience),
             skills |-> _score_skills_section(profile_data_arg.skills, target_industry)]
    IN  [headline |-> section_scores.headline,
         about |-> section_scores.about,
         experience |-> section_scores.experience,
         skills |-> section_scores.skills,
         overall |-> _calculate_overall_profile_score(section_scores)]

(***************************************************************************)
(* The scorer as a state machine: a profile and a target are given,        *)
(* calculate_overall_score runs.                                           *)
(***************************************************************************)
\* s followed by as many dots as bring it to n characters
Pad(s, n) == s \o Repeat(".", n - Len(s))

\* the parts of a headline, joined by " | "
JoinParts(parts) == Join(SelectSeq(parts, LAMBDA part : part # ""), " | ")

\* headlines with and without a value verb, the role and a passive term,
\* as they are and at the ends of the length window
BuiltHeadlines ==
    LET bases == {JoinParts(<<value, role, tone>>) :
                     value \in {"", "Driving growth"},
                     role \in {"", "SOFTWARE Engineer"},
                     tone \in {"", "Seeking roles"}}
    IN  bases \cup {Pad(base, n) : base \in bases, n \in {59, 60, 120, 121}}

ExampleHeadline == "Senior Backend Engineer | Payments | Scaling to 10M users"

ScorerHeadlines == BuiltHeadlines \cup {ExampleHeadline}

StoryAbout ==
    "My journey in software development and data: I grew revenue 40% to $2 million. Let's connect."

LongStoryAbout == StoryAbout \o Repeat(" and more", 150)

\* abouts of 300 words with three Technology keywords, "%" and "$": with
\* neither a story word nor a call to action, with a story word, with both
About300(opening, words) == opening \o " software data coding 40% $2" \o Repeat(" so", 295 - words)

MeasuredAbouts ==
    {About300("Engineer", 1), About300("My journey", 2), About300("My journey, connect", 3)}

ScorerAbouts == {"", "I code", StoryAbout, LongStoryAbout} \cup MeasuredAbouts

ScorerExperiences ==
    {<<>>,
     <<Job("Intern", ShortDescription)>>,
     <<Job("Lead", "Led and managed a team that increased revenue by 40%"),
       Job("Engineer", PlainDescription)>>}

ScorerSkills ==
    {<<>>,
     <<"Python", "Leadership">>,
     <<"Python", "SQL", "Software Design", "Data Modeling", "Coding", "AI", "ML",
       "Leadership", "Teamwork", "Digital Strategy">>}

\* a headline that passes every check, and one that passes none
FullHeadline == Pad("Driving growth | SOFTWARE Engineer", 60)

PassiveHeadline == "Seeking roles"

\* one entry that passes every check, alone and followed by four that pass none
FullJob == Job("Lead", "Led and managed a team that increased revenue by 40%")

EmptyJob == Job("Intern", "")

\* profiles whose sections score at the ends of the scale
ExtremeProfiles ==
    [headline : {FullHeadline, PassiveHeadline},
     about : {"", About300("My journey, connect", 3)},
     experience : {<<FullJob>>, <<FullJob, EmptyJob, EmptyJob, EmptyJob, EmptyJob>>},
     skills : {<<>>,
               <<"Python", "SQL", "Software Design", "Data Modeling", "Coding", "AI", "ML",
                 "Leadership", "Teamwork", "Digital Strategy">>}]

ScorerProfiles ==
    [headline : ScorerHeadlines, about : {"", "I code"},
     experience : {<<>>, <<Job("Intern", ShortDescription)>>},
     skills : {<<>>, <<"Python", "Leadership">>}]
    \cup [headline : {"", ExampleHeadline}, about : ScorerAbouts,
          experience : ScorerExperiences, skills : ScorerSkills]
    \cup ExtremeProfiles

ScorerTargets ==
    {[industry |-> "Technology", role |-> "Software Engineer"],
     [industry |-> "Finance", role |-> "Data Scientist"],
     [industry |-> "Retail", role |-> ""]}

NoScores == <<>>

InitScorer ==
    /\ scorer_profile \in ScorerProfiles
    /\ scorer_target \in ScorerTargets
    /\ scorer_pc = "ready"
    /\ content_scores = NoScores

CalculateOverallScore ==
    /\ scorer_pc = "ready"
    /\ content_scores' = calculate_overall_score(scorer_profile, scorer_target.industry,
                                                 scorer_target.role)
    /\ scorer_pc' = "scored"
    /\ UNCHANGED <<scorer_profile, scorer_target, outside_scorer>>

NextScorer == CalculateOverallScore

ScorerIdle ==
    /\ scorer_profile = EmptyProfile
    /\ scorer_target = [industry |-> "Technology", role |-> "Software Engineer"]
    /\ scorer_pc = "idle"
    /\ content_scores = NoScores

(***************************************************************************)
(* Claims about the scorer                                                 *)
(***************************************************************************)
\* C8: for a profile whose experience list and skills list are both empty,
\* whatever the target, the experience score and the skills score are both
\* exactly 0 and both sections have a non-empty feedback list.
C8_EmptySectionsScoreZeroWithFeedback ==
    (/\ scorer_pc = "scored"
     /\ scorer_profile.experience = <<>>
     /\ scorer_profile.skills = <<>>)
        => /\ content_scores.experience.score = 0
           /\ content_scores.skills.score = 0
           /\ content_scores.experience.feedback # <<>>
           /\ content_scores.skills.feedback # <<>>

\* a profile with a headline and an about text but no experience and no
\* skills was scored
C8_Witness ==
    /\ scorer_pc = "scored"
    /\ scorer_profile.experience = <<>>
    /\ scorer_profile.skills = <<>>
    /\ scorer_profile.headline # ""
    /\ scorer_profile.about # ""
    /\ content_scores.experience.score = 0

\* the four checks of the headline as the claim states them
HeadlineChecksSatisfied(headline, target_role) ==
    {check \in {"length", "value", "role", "tone"} :
        \/ check = "length" /\ Len(headline) \in 60..120
        \/ check = "value"
             /\ \E verb \in {"helping", "driving", "delivering", "creating", "solving"} :
                   Find(Lower(headline), verb) >= 0
        \/ check = "role" /\ Find(Lower(headline), Lower(target_role)) >= 0
        \/ check = "tone"
             /\ \A term \in {"looking", "seeking", "unemployed"} :
                   Find(Lower(headline), term) = -1}

\* C9: the headline score is 25 times the number of satisfied checks among
\* the four (length in 60..120, a value verb, the target role without regard
\* to case, no passive term): a headline that satisfies all four scores 100
\* and every failed check adds exactly one feedback entry.
C9_HeadlineScoreCountsChecks ==
    scorer_pc = "scored" =>
        LET satisfied == Cardinality(HeadlineChecksSatisfied(scorer_profile.headline,
                                                             scorer_target.role))
        IN  /\ content_scores.headline.score = 25 * satisfied
            /\ Len(content_scores.headline.feedback) = 4 - satisfied
            /\ (satisfied = 4 => content_scores.headline.score = 100)

\* a headline of exactly 60 characters that satisfies all four checks was
\* scored 100
C9_Witness ==
    /\ scorer_pc = "scored"
    /\ Len(scorer_profile.headline) = 60
    /\ scorer_target.role = "Software Engineer"
    /\ Cardinality(HeadlineChecksSatisfied(scorer_profile.headline, scorer_target.role)) = 4
    /\ content_scores.headline.score = 100
    /\ content_scores.headline.feedback = <<>>

\* the example headline was scored against ('Technology', 'Software Engineer')
ExampleScored ==
    /\ scorer_pc = "scored"
    /\ scorer_profile.headline = ExampleHeadline
    /\ scorer_target = [industry |-> "Technology", role |-> "Software Engineer"]

\* C10 as stated: the headline 'Senior Backend Engineer | Payments | Scaling
\* to 10M users' scored against ('Technology', 'Software Engineer') gets a
\* headline score of at least 75.
C10_ExampleHeadlineScoresAtLeast75 ==
    ExampleScored => content_scores.headline.score >= 75

\* C10 as amended: that headline gets a headline score of exactly 25: only
\* the passive-language check passes, and the feedback names the length
\* (57 characters), the value proposition and the target role.
C10_ExampleHeadlineScores25 ==
    ExampleScored =>
        /\ content_scores.headline.score = 25
        /\ content_scores.headline.feedback =
               <<"Headline length is not optimal", "Missing clear value proposition",
                 "Target role not mentioned">>

C10_Witness ==
    /\ ExampleScored
    /\ Len(scorer_profile.headline) = 57
    /\ content_scores.headline.score = 25

(***************************************************************************)
(* Prompt templates (src/src/prompt_templates.py)                          *)
(***************************************************************************)
\* INDUSTRY_DATA, in the order of the dict literal; of each industry the
\* role_specific table
INDUSTRY_DATA ==
    <<[industry |-> "Technology",
       role_specific |->
         <<[role |-> "Software Engineer",
            skills |-> <<"Python", "JavaScript", "React", "Node.js", "AWS", "Docker", "Kubernetes">>,
            metrics |-> <<"performance", "reliability", "scalability", "user experience", "code quality">>],
           [role |-> "Data Scientist",
            skills |-> <<"Python", "R", "Machine Learning", "Statistics", "SQL", "TensorFlow", "PyTorch">>,
            metrics |-> <<"accuracy", "insights", "predictions", "data quality", "model performance">>],
           [role |-> "Product Manager",
            skills |-> <<"Product Strategy", "Agile", "User Research", "Analytics", "Roadmapping", "Stakeholder Management">>,
            metrics |-> <<"user engagement", "revenue", "market share", "customer satisfaction", "time to market">>]>>],
      [industry |-> "Finance",
       role_specific |->
         <<[role |-> "Financial Analyst",
            skills |-> <<"Financial Modeling", "Excel", "Valuation", "Risk Analysis", "Due Diligence">>,
            metrics |-> <<"ROI", "risk reduction", "cost savings", "accuracy", "efficiency">>]>>],
      [industry |-> "Healthcare",
       role_specific |->
         <<[role |-> "Healthcare Administrator",
            skills |-> <<"Healthcare Management", "Budget Management", "Regulatory Compliance", "Quality Improvement">>,
            metrics |-> <<"patient satisfaction", "cost reduction", "compliance", "efficiency", "quality scores">>]>>]>>

\* INDUSTRY_DATA.get(target_industry, INDUSTRY_DATA["Technology"])
IndustryInfo(target_industry) ==
    LET Of(industry) == SelectSeq(INDUSTRY_DATA, LAMBDA d : d.industry = industry)
    IN  IF Of(target_industry) # <<>> THEN Of(target_industry)[1] ELSE Of("Technology")[1]

\* role in industry_info["role_specific"]
HasRoleData(industry_info, role) ==
    \E n \in 1..Len(industry_info.role_specific) : industry_info.role_specific[n].role = role

\* industry_info["role_specific"][role]
RoleData(industry_info, role) ==
    SelectSeq(industry_info.role_specific, LAMBDA d : d.role = role)[1]

PromptError(error) ==
    [kind |-> "error", error |-> error, industry |-> "", role_skills |-> <<>>,
     role_metrics |-> <<>>]

\* get_system_prompt: the industry whose data the prompt is built from and
\* the skills and metrics it names, or the exception.  The default of
\* role_specific.get(target_role, role_specific["Software Engineer"]) is
\* evaluated before get is called.
get_system_prompt(target_industry, target_role) ==
    LET industry_info == IndustryInfo(target_industry)
    IN  IF ~HasRoleData(industry_info, "Software Engineer")
        THEN PromptError("KeyError: 'Software Engineer'")
        ELSE LET role_data == IF HasRoleData(industry_info, target_role)
                              THEN RoleData(industry_info, target_role)
                              ELSE RoleData(industry_info, "Software Engineer")
             IN  [kind |-> "prompt", error |-> "", industry |-> industry_info.industry,
                  role_skills |-> role_data.skills, role_metrics |-> role_data.metrics]

(***************************************************************************)
(* The session of src/app.py: st.session_state, the telemetry buffer the   *)
(* handlers log to, and the training dataset file.  One step is one run of *)
(* the page script: main() stores the sidebar's target, then the handler   *)
(* of the pressed button runs.  None is <<>> and a stored value v is <<v>>. *)
(***************************************************************************)
None == <<>>

Some(v) == <<v>>

\* the sidebar's text inputs and model radio (render_sidebar)
Sidebars ==
    {[target_industry |-> "Technology", target_role |-> "Software Engineer",
      current_model |-> "gpt4o"],
     [target_industry |-> "Finance", target_role |-> "Data Analyst",
      current_model |-> "llama3_custom"]}

available_models == {"gpt4o", "llama3_custom"}

\* Config.DEFAULT_MODEL
DEFAULT_MODEL == "gpt4o"

\* main(): render_sidebar stores the model, main stores the target
StoreTarget(industry, role, model) ==
    session_config' = [target_industry |-> Some(industry), target_role |-> Some(role),
                       current_model |-> model]

\* the files handed to the extractor: an image file, a file object that is
\* no image, or a base64 string as the screenshot handler passes
FileKinds == {"image", "not_image", "base64_str"}

\* process_uploaded_images: a file that fails is skipped after a warning that
\* prints uploaded_file.name; a str has no name, so the warning itself raises
process_uploaded_images(uploaded_files) ==
    IF \E n \in 1..Len(uploaded_files) : uploaded_files[n] = "base64_str"
    THEN [raised |-> TRUE, images |-> <<>>]
    ELSE [raised |-> FALSE, images |-> SelectSeq(uploaded_files, LAMBDA f : f = "image")]

\* max_retries = 3
max_retries == 3

\* what the vision API does in one call of the extractor: how many attempts
\* fail, and the content of the reply
SessionReplies ==
    {"",
     "I cannot read this image.",
     Dumps([headline |-> "Dev | Ops", about |-> "I code", experience |-> <<>>,
            skills |-> <<"SQL", "Go">>],
           [style |-> "line", escape |-> FALSE, trailing_comma |-> FALSE]),
     Dumps([headline |-> "Dev | Ops", about |-> "", experience |-> <<>>, skills |-> <<>>],
           [style |-> "lines", escape |-> FALSE, trailing_comma |-> FALSE]),
     Dumps([headline |-> "Dev | Ops", about |-> "I code",
            experience |-> <<[title |-> "Dev", company |-> "Acme", dates |-> "",
                              description |-> "Led a team"],
                             [title |-> "Intern", company |-> "", dates |-> "",
                              description |-> ""]>>,
            skills |-> <<"SQL">>],
           [style |-> "line", escape |-> FALSE, trailing_comma |-> FALSE])}

VisionApis ==
    [failures : {0}, text : SessionReplies] \cup {[failures |-> max_retries, text |-> ""]}

\* profile = self._parse_response(response_text), for each reply
ParsedReplies == [reply \in SessionReplies |-> _parse_response(reply)]

\* VisionEngine.extract_profile_data: every failure is raised as RuntimeError
extract_profile_data(uploaded_files, api) ==
    IF uploaded_files = <<>> THEN Raised
    ELSE LET processed == process_uploaded_images(uploaded_files)
         IN  IF processed.raised \/ processed.images = <<>> THEN Raised
             ELSE IF api.failures >= max_retries THEN Raised
             ELSE IF api.text = "" THEN Raised
             ELSE ParsedReplies[api.text]

\* what the language model answers to a strategy prompt: a plan, or an error
PlanTexts == {"HEADLINE OPTIMIZATION\nLead with the role", "Add numbers to the about section"}

StrategyReplies == [kind : {"text"}, text : PlanTexts] \cup {[kind |-> "error", text |-> ""]}

\* StrategyEngine.generate_optimization_plan -> _generate_strategy
generate_optimization_plan(target_industry, target_role, model_choice, llm) ==
    IF get_system_prompt(target_industry, target_role).kind = "error"
    THEN [kind |-> "error", text |-> ""]
    ELSE IF model_choice \in available_models THEN llm
    ELSE [kind |-> "error", text |-> ""]

\* what PDFProfileAnalyzer.analyze_pdf returns (experiences and skills), or
\* the exception it ends with
PdfExperiences ==
    {<<>>, <<[title |-> "Analyst", company |-> "Initech", dates |-> "2019 - 2022",
              description |-> "Built reports"]>>}

PdfOutcomes ==
    [kind : {"data"}, experiences : PdfExperiences, skills : {<<>>, <<"Excel">>}]
    \cup {[kind |-> k, experiences |-> <<>>, skills |-> <<>>] :
             k \in {"import_error", "error"}}

\* PDFProfileAnalyzer.create_ultimate_profile_template: the opening block
create_ultimate_profile_template(target_industry, target_role) ==
    "\nULTIMATE LINKEDIN PROFILE TEMPLATE\n==================================\n\n"
    \o "Generated for: " \o target_role \o " in " \o target_industry
    \o "\nBased on: PDF Profile Analysis\n\n"

\* the LinkedInProfile the PDF handler builds "for compatibility"
PdfCompatibilityProfile(pdf, target_industry, target_role) ==
    [headline   |-> target_role \o " | " \o target_industry \o " | Professional",
     about      |-> "Generated from PDF analysis",
     experience |-> [n \in 1..Len(pdf.experiences) |->
                        [title       |-> pdf.experiences[n].title,
                         company     |-> pdf.experiences[n].company,
                         dates       |-> pdf.experiences[n].dates,
                         description |-> pdf.experiences[n].description]],
     skills     |-> pdf.skills]

\* telemetry.log_vision_extraction / log_strategy_generation as the session
\* calls them: the entry carries the outcome the handler reports
TelemetryEntry(event_type, success, at) ==
    [timestamp |-> at, event_type |-> event_type, success |-> success]

\* the chat prompts
Prompts == {"Make it shorter"}

\* how many page runs one session makes
MaxSessionSteps == 3

\* the positions of the experience entries without a title or a company
IncompleteEntries(experience) ==
    SelectSeq([n \in 1..Len(experience) |->
                  IF experience[n].title = "" \/ experience[n].company = ""
                  THEN "Experience " \o IntToStr(n) ELSE ""],
              LAMBDA name : name # "")

\* validate_extraction with an incomplete experience entry counted as a
\* missing section
ValidateCountingIncompleteEntries(profile) ==
    LET missing_sections ==
            Remark(profile.headline # "", "headline") \o Remark(profile.about # "", "about")
            \o Remark(profile.experience # <<>>, "experience")
            \o Remark(profile.skills # <<>>, "skills")
        incomplete_exp == IncompleteEntries(profile.experience)
    IN  [is_valid |-> missing_sections = <<>> /\ incomplete_exp = <<>>,
         warnings |->
             Remark(profile.headline # "", "No headline found")
             \o Remark(profile.about # "", "No about section found")
             \o Remark(profile.experience # <<>>, "No experience entries found")
             \o Remark(profile.skills # <<>>, "No skills found")
             \o Remark(incomplete_exp = <<>>,
                       "Incomplete experience entries: " \o Join(incomplete_exp, ", ")),
         missing_sections |-> missing_sections]

\* VisionEngine.validate_extraction
validate_extraction(profile) ==
    LET missing_sections ==
            Remark(profile.headline # "", "headline") \o Remark(profile.about # "", "about")
            \o Remark(profile.experience # <<>>, "experience")
            \o Remark(profile.skills # <<>>, "skills")
        incomplete_exp == IncompleteEntries(profile.experience)
    IN  [is_valid |-> Len(missing_sections) = 0,
         warnings |->
             Remark(profile.headline # "", "No headline found")
             \o Remark(profile.about # "", "No about section found")
             \o Remark(profile.experience # <<>>, "No experience entries found")
             \o Remark(profile.skills # <<>>, "No skills found")
             \o Remark(incomplete_exp = <<>>,
                       "Incomplete experience entries: " \o Join(incomplete_exp, ", ")),
         missing_sections |-> missing_sections]

UploadedFileLists == {<<>>, <<"image">>, <<"not_image">>, <<"not_image", "image">>}

\* initialize_session_state; the keys it does not set read as None
InitSession ==
    /\ profile_data = None
    /\ optimization_report = None
    /\ pdf_profile_data = None
    /\ upload_method = None
    /\ conversation_history = <<>>
    /\ session_config = [target_industry |-> None, target_role |-> None,
                         current_model |-> DEFAULT_MODEL]
    /\ session_message = ""
    /\ training_dataset = <<>>
    /\ implementation_checklist = None
    /\ validation = None
    /\ extracted = {}
    /\ session_steps = 0

\* one run of main() up to render_main_interface
RunPage(sidebar) ==
    /\ session_steps < MaxSessionSteps
    /\ session_steps' = session_steps + 1
    /\ StoreTarget(sidebar.target_industry, sidebar.target_role, sidebar.current_model)

RECURSIVE LoggedAll(_, _)
LoggedAll(logs, entries) ==
    IF entries = <<>> THEN logs
    ELSE LoggedAll(AppendCapped(logs, Head(entries)), Tail(entries))

\* the _add_log_entry calls of one handler, in order
LogAll(entries) ==
    /\ local_logs' = LoggedAll(local_logs, entries)
    /\ log_file' = IF entries = <<>> THEN log_file ELSE _save_logs(local_logs')
    /\ log_clock' = log_clock + Len(entries)
    /\ UNCHANGED log_plan

\* what extract_profile_data gives analyze_profile, over the uploads and the
\* behaviours of the vision API
ExtractionResults ==
    {extract_profile_data(uploaded_files, api) :
        uploaded_files \in UploadedFileLists, api \in VisionApis}

\* main() with no button pressed: the page is drawn again
main ==
    \E sidebar \in Sidebars :
        /\ RunPage(sidebar)
        /\ validation' = None
        /\ UNCHANGED <<profile_data, optimization_report, pdf_profile_data, upload_method,
                       conversation_history, session_message, training_dataset,
                       implementation_checklist, extracted, telemetry_vars, outside_session>>

\* "Analyze LinkedIn Screenshots": the files are read and base64-encoded, and
\* the strings go to extract_profile_data
AnalyzeScreenshots ==
    \E count \in 1..2, api \in VisionApis, sidebar \in Sidebars :
        LET base64_images == [n \in 1..count |-> "base64_str"]
            result == extract_profile_data(base64_images, api)
        IN  /\ RunPage(sidebar)
            /\ validation' = None
            /\ IF result.kind = "error"
               THEN /\ session_message' = "Analysis failed"
                    /\ UNCHANGED <<profile_data, upload_method, extracted>>
               ELSE /\ profile_data' = Some(result.profile)
                    /\ upload_method' = Some("images")
                    /\ extracted' = extracted \cup {result.profile}
                    \* StrategyEngine has no generate_optimization_strategy
                    /\ session_message' = "Strategy generation failed"
            /\ UNCHANGED <<optimization_report, pdf_profile_data, conversation_history,
                           training_dataset, implementation_checklist,
                           telemetry_vars, outside_session>>

\* "Analyze PDF Profile" with the "Generate Ultimate Profile" button inside
\* its handler; pdf_analysis_report and ultimate_profile_template are written
\* with the report and read nowhere
AnalyzePdfProfile ==
    \E sidebar \in Sidebars, pdf \in PdfOutcomes, generate \in {"not_pressed", "pressed", "raises"} :
        /\ RunPage(sidebar)
        /\ validation' = None
        /\ IF pdf.kind # "data"
           THEN /\ session_message' = IF pdf.kind = "import_error"
                                      THEN "PDF analysis libraries not available"
                                      ELSE "PDF analysis failed"
                /\ UNCHANGED <<pdf_profile_data, upload_method, optimization_report,
                               profile_data>>
           ELSE /\ pdf_profile_data' = Some([experiences |-> pdf.experiences,
                                             skills |-> pdf.skills])
                /\ upload_method' = Some("pdf")
                /\ IF generate = "pressed"
                   THEN /\ optimization_report' =
                               Some(create_ultimate_profile_template(sidebar.target_industry, sidebar.target_role))
                        /\ profile_data' =
                               Some(PdfCompatibilityProfile(pdf, sidebar.target_industry, sidebar.target_role))
                        /\ session_message' = "Ultimate profile generated successfully"
                   ELSE /\ session_message' = IF generate = "raises"
                                              THEN "PDF analysis failed"
                                              ELSE "PDF analysis complete"
                        /\ UNCHANGED <<optimization_report, profile_data>>
        /\ UNCHANGED <<conversation_history, training_dataset, implementation_checklist,
                       extracted, telemetry_vars, outside_session>>

\* "Clear", shown next to the screenshot button once a profile is stored
Clear ==
    \E sidebar \in Sidebars :
        /\ profile_data # None
        /\ RunPage(sidebar)
        /\ validation' = None
        /\ profile_data' = None
        /\ optimization_report' = None
        /\ pdf_profile_data' = None
        /\ upload_method' = None
        /\ UNCHANGED <<conversation_history, session_message, training_dataset,
                       implementation_checklist, extracted, telemetry_vars,
                       outside_session>>

\* "Restart Analysis"
RestartAnalysis ==
    \E sidebar \in Sidebars :
        /\ RunPage(sidebar)
        /\ validation' = None
        /\ profile_data' = None
        /\ optimization_report' = None
        /\ implementation_checklist' = Some(<<>>)
        /\ UNCHANGED <<pdf_profile_data, upload_method, conversation_history,
                       session_message, training_dataset, extracted, telemetry_vars,
                       outside_session>>

\* analyze_profile(uploaded_files): extraction, then the plan, with telemetry
\* and the training example
analyze_profile ==
    \E result \in ExtractionResults, sidebar \in Sidebars :
        LET vision_entry ==
                TelemetryEntry("vision_extraction", result.kind # "error", log_clock + 1)
        IN  /\ RunPage(sidebar)
            /\ \/ \* the engines could not be initialized
                  /\ session_message' = "Failed to initialize required engines"
                  /\ LogAll(<<>>)
                  /\ validation' = None
                  /\ UNCHANGED <<profile_data, optimization_report, training_dataset,
                                 extracted>>
               \/ /\ result.kind = "error"
                  /\ LogAll(<<vision_entry>>)
                  /\ session_message' = "Vision extraction failed"
                  /\ validation' = None
                  /\ UNCHANGED <<profile_data, optimization_report, training_dataset,
                                 extracted>>
               \/ /\ result.kind # "error"
                  /\ profile_data' = Some(result.profile)
                  /\ extracted' = extracted \cup {result.profile}
                  /\ validation' = Some(validate_extraction(result.profile))
                  /\ \E llm \in StrategyReplies :
                       LET plan == generate_optimization_plan(sidebar.target_industry, sidebar.target_role,
                                                        sidebar.current_model, llm)
                           strategy_entry ==
                               TelemetryEntry("strategy_generation", plan.kind # "error",
                                              log_clock + 2)
                       IN  /\ LogAll(<<vision_entry, strategy_entry>>)
                           /\ IF plan.kind = "error"
                              THEN /\ session_message' = "Strategy generation failed"
                                   /\ UNCHANGED <<optimization_report, training_dataset>>
                              ELSE /\ optimization_report' = Some(plan.text)
                                   /\ session_message' = "Profile analysis complete"
                                   /\ \E written \in BOOLEAN :
                                        training_dataset' =
                                          IF written
                                          THEN Append(training_dataset,
                                                 [profile_data |-> result.profile,
                                                  target_industry |-> sidebar.target_industry,
                                                  target_role |-> sidebar.target_role,
                                                  output |-> plan.text,
                                                  model_choice |-> sidebar.current_model])
                                          ELSE training_dataset
            /\ UNCHANGED <<pdf_profile_data, upload_method, conversation_history,
                           implementation_checklist, outside_session>>

\* render_chat_interface with a prompt entered; drawn only once a profile is
\* stored (render_main_interface)
render_chat_interface ==
    \E sidebar \in Sidebars, prompt \in Prompts, llm \in StrategyReplies, engine \in BOOLEAN :
        LET asked == Append(conversation_history, [role |-> "user", content |-> prompt])
            response == generate_optimization_plan(sidebar.target_industry, sidebar.target_role,
                                                        sidebar.current_model, llm)
        IN  /\ profile_data # None
            /\ RunPage(sidebar)
            /\ validation' = None
            /\ IF ~engine
               THEN /\ conversation_history' = asked
                    /\ session_message' = "Strategy engine not available"
                    /\ UNCHANGED optimization_report
               ELSE IF response.kind = "error"
               THEN /\ conversation_history' = asked
                    /\ session_message' = "Error generating response"
                    /\ UNCHANGED optimization_report
               ELSE /\ conversation_history' =
                         Append(asked, [role |-> "assistant", content |-> response.text])
                    /\ optimization_report' = Some(response.text)
                    /\ UNCHANGED session_message
            /\ UNCHANGED <<profile_data, pdf_profile_data, upload_method, training_dataset,
                           implementation_checklist, extracted, telemetry_vars,
                           outside_session>>

\* what main() shows when render_main_interface ends with an exception
ApplicationError(e) == "Application Error: " \o e

\* render_unified_results, "Submit Feedback" pressed: the thanks are shown
\* and telemetry.log_feedback is called; TelemetryLogger has no such method,
\* so whatever the rating and the text, the call raises AttributeError, no
\* entry is recorded and main() shows the error in place of the rest of the
\* page
SubmitFeedback ==
    \E sidebar \in Sidebars :
        /\ optimization_report # None
        /\ RunPage(sidebar)
        /\ validation' = None
        /\ session_message' =
             ApplicationError("'TelemetryLogger' object has no attribute 'log_feedback'")
        /\ UNCHANGED <<profile_data, optimization_report, pdf_profile_data, upload_method,
                       conversation_history, training_dataset, implementation_checklist,
                       extracted, telemetry_vars, outside_session>>

NextSession ==
    \/ main
    \/ AnalyzeScreenshots
    \/ AnalyzePdfProfile
    \/ Clear
    \/ RestartAnalysis
    \/ analyze_profile
    \/ render_chat_interface
    \/ SubmitFeedback

SessionIdle ==
    /\ profile_data = None
    /\ optimization_report = None
    /\ pdf_profile_data = None
    /\ upload_method = None
    /\ conversation_history = <<>>
    /\ session_config = [target_industry |-> None, target_role |-> None,
                         current_model |-> DEFAULT_MODEL]
    /\ session_message = ""
    /\ training_dataset = <<>>
    /\ implementation_checklist = None
    /\ validation = None
    /\ extracted = {}
    /\ session_steps = 0

(***************************************************************************)
(* Claim about the profile the session stores                              *)
(***************************************************************************)
\* C1: in every reachable session state the headline and the about text of
\* the stored profile are empty or are the headline and about text of a
\* profile the extractor parsed from a model reply.
C1_ProfileTextComesFromExtractor ==
    profile_data # None =>
        /\ \/ profile_data[1].headline = ""
           \/ \E p \in extracted : p.headline = profile_data[1].headline
        /\ \/ profile_data[1].about = ""
           \/ \E p \in extracted : p.about = profile_data[1].about

(***************************************************************************)
(* Further claims about the scorer                                         *)
(***************************************************************************)
\* the about text is one the measured-about scenario speaks of: 300 words, at
\* least three Technology keywords, and the tokens "%" and "$"
MeasuredAbout(about) ==
    /\ WordCount(about) = 300
    /\ CountIn(LowerAll(industry_keywords("Technology")), Lower(about)) >= 3
    /\ Contains(about, "%")
    /\ Contains(about, "$")

\* C11: every about text of 300 words with 3 Technology keywords and the
\* tokens "%" and "$" gets an about score of at least 80 against the target
\* industry Technology.
C11_MeasuredAboutScoresAtLeast80 ==
    (/\ scorer_pc = "scored"
     /\ scorer_target.industry = "Technology"
     /\ MeasuredAbout(scorer_profile.about))
        => content_scores.about.score >= 80

\* C11, as the code has it: such an about text passes the length, keyword
\* and quantifiable checks, 20 points each, so its about score is at least
\* 60; the story and the call-to-action checks are not implied.
C11_MeasuredAboutScoresAtLeast60 ==
    (/\ scorer_pc = "scored"
     /\ scorer_target.industry = "Technology"
     /\ MeasuredAbout(scorer_profile.about))
        => content_scores.about.score >= 60

\* a measured about with neither story word nor call to action was scored 60
C11_Witness ==
    /\ scorer_pc = "scored"
    /\ scorer_target.industry = "Technology"
    /\ MeasuredAbout(scorer_profile.about)
    /\ content_scores.about.score = 60
    /\ content_scores.about.feedback =
           <<"Missing storytelling elements", "Missing call to action">>

Sections == {"headline", "about", "experience", "skills", "overall"}

\* C12: for every profile and every target, each of the five QualityMetrics
\* that calculate_overall_score returns (headline, about, experience, skills,
\* overall) has an integer score between 0 and 100 and max_score 100.
C12_ScoresWithinScale ==
    scorer_pc = "scored" =>
        /\ DOMAIN content_scores = Sections
        /\ \A section \in Sections :
              /\ content_scores[section].score \in 0..100
              /\ content_scores[section].max_score = 100

\* a profile was scored 100 in every section and overall
C12_Witness ==
    /\ scorer_pc = "scored"
    /\ \A section \in Sections : content_scores[section].score = 100

\* the smallest and the largest of the four section scores
SectionScores ==
    {content_scores[section].score : section \in Sections \ {"overall"}}

\* C13: the overall score is the weighted average of the four section scores
\* with weights 0.2, 0.3, 0.35 and 0.15, truncated to an integer, so it lies
\* between the smallest and the largest section score; the overall feedback
\* and suggestions are the four sections' lists concatenated in the order
\* headline, about, experience, skills.
C13_OverallIsTruncatedWeightedAverage ==
    scorer_pc = "scored" =>
        /\ content_scores.overall.score =
               (20 * content_scores.headline.score + 30 * content_scores.about.score
                + 35 * content_scores.experience.score
                + 15 * content_scores.skills.score) \div 100
        /\ \E lowest \in SectionScores : lowest <= content_scores.overall.score
        /\ \E highest \in SectionScores : content_scores.overall.score <= highest
        /\ content_scores.overall.feedback =
               content_scores.headline.feedback \o content_scores.about.feedback
               \o content_scores.experience.feedback \o content_scores.skills.feedback
        /\ content_scores.overall.suggestions =
               content_scores.headline.suggestions \o content_scores.about.suggestions
               \o content_scores.experience.suggestions
               \o content_scores.skills.suggestions

\* the keys of self.industry_keywords
KnownIndustries == {"Technology", "Finance", "Healthcare", "Marketing", "Sales"}

\* C14: when the target industry is not a key of the industry keyword table,
\* the about check for 3 industry keywords and the skills check for 5
\* industry-relevant skills are evaluated against the Technology list, so the
\* about score and the skills score are those the same profile gets for
\* Technology.
C14_UnknownIndustryScoresAsTechnology ==
    (scorer_pc = "scored" /\ scorer_target.industry \notin KnownIndustries) =>
        /\ content_scores.about.score =
               _score_about_section(scorer_profile.about, "Technology").score
        /\ content_scores.skills.score =
               _score_skills_section(scorer_profile.skills, "Technology").score

(***************************************************************************)
(* Claims about validation, retries and model selection                    *)
(***************************************************************************)
\* the sections of p that are empty
EmptySections(p) ==
    {section \in {"headline", "about", "experience", "skills"} :
        p[section] = IF section \in {"headline", "about"} THEN "" ELSE <<>>}

\* C15: validate_extraction lists in missing_sections exactly the empty ones
\* of headline, about, experience and skills, and is_valid holds exactly when
\* none is missing; an experience entry without title or company only adds a
\* warning that names its position; the profile is not modified, and
\* analyze_profile stores it and goes on to the plan whatever the result.
C15_ValidationOnlyAnnotates ==
    validation # None =>
        LET result == validation[1]
            profile == profile_data[1]
            named == {result.missing_sections[n] : n \in 1..Len(result.missing_sections)}
            incomplete == {n \in 1..Len(profile.experience) :
                              profile.experience[n].title = ""
                              \/ profile.experience[n].company = ""}
            position_warnings ==
                {n \in 1..Len(result.warnings) :
                    StartsWith(result.warnings[n], "Incomplete experience entries: ")}
        IN  /\ profile_data # None
            /\ profile \in extracted
            /\ named = EmptySections(profile)
            /\ Len(result.missing_sections) = Cardinality(named)
            /\ result.is_valid <=> result.missing_sections = <<>>
            /\ Len(result.warnings) = Len(result.missing_sections)
                                      + Cardinality(position_warnings)
            /\ incomplete = {} <=> position_warnings = {}
            /\ \A n \in position_warnings : \A entry \in incomplete :
                   Contains(result.warnings[n], "Experience " \o IntToStr(entry))
            /\ local_logs # <<>>
            /\ local_logs[Len(local_logs)].event_type = "strategy_generation"

\* a profile with every section present and an entry without company was
\* validated: valid, with a warning; and the plan was stored
C15_Witness ==
    /\ validation # None
    /\ validation[1].is_valid
    /\ validation[1].warnings = <<"Incomplete experience entries: Experience 2">>
    /\ optimization_report # None

\* a profile with missing sections was validated, stored and planned for
C15_InvalidProfileUsed ==
    /\ validation # None
    /\ ~validation[1].is_valid
    /\ profile_data # None
    /\ optimization_report # None

(***************************************************************************)
(* VisionEngine.extract_profile_data, one step per statement group         *)
(***************************************************************************)
ExtractFileLists == UploadedFileLists \cup {<<"image", "image">>, <<"base64_str">>}

\* the exceptions the vision API raises
ApiErrors == {"Rate limit reached", "Connection reset"}

NoError == [type |-> "", message |-> ""]

\* except Exception as e: raise RuntimeError(error_msg)
RuntimeError(e) ==
    [type |-> "RuntimeError",
     message |-> "Vision extraction failed: " \o e \o
         (IF Contains(e, "JSON")
          THEN " - The vision model had trouble parsing the LinkedIn screenshots. Please try with clearer images."
          ELSE IF Contains(Lower(e), "rate limit")
          THEN " - Rate limit exceeded. Please wait a moment and try again."
          ELSE IF Contains(Lower(e), "timeout")
          THEN " - Request timed out. Please try with smaller or fewer images."
          ELSE "")]

ExtractionErrors ==
    [e \in ApiErrors \cup {"No valid images could be processed",
                           "'str' object has no attribute 'name'",
                           "Empty response from vision model",
                           "Failed to parse JSON response"} |-> RuntimeError(e)]

\* the last iteration taken to be the one after the loop
LastAttemptAfterLoop(k) == k = max_retries

\* if attempt == max_retries - 1
last_attempt(k) == k = max_retries - 1

\* time.sleep(2 ** attempt)
backoff(k) == 2 ^ k

InitExtract ==
    /\ extract_files \in ExtractFileLists
    /\ extract_pc = "start"
    /\ attempt = 0
    /\ api_calls = 0
    /\ api_errors = <<>>
    /\ sleeps = <<>>
    /\ extract_reply = ""
    /\ parse_calls = 0
    /\ extract_result = Raised
    /\ extract_error = NoError

\* the statements before the loop: the test of the argument (outside the
\* try, so its ValueError is not wrapped) and process_uploaded_images
PrepareImages ==
    /\ extract_pc = "start"
    /\ LET processed == process_uploaded_images(extract_files)
       IN  IF extract_files = <<>>
           THEN /\ extract_pc' = "raised"
                /\ extract_error' = [type |-> "ValueError",
                                     message |-> "No image files provided"]
           ELSE IF processed.raised
           THEN /\ extract_pc' = "raised"
                /\ extract_error' = ExtractionErrors["'str' object has no attribute 'name'"]
           ELSE IF processed.images = <<>>
           THEN /\ extract_pc' = "raised"
                /\ extract_error' = ExtractionErrors["No valid images could be processed"]
           ELSE /\ extract_pc' = "calling"
                /\ UNCHANGED extract_error
    /\ UNCHANGED <<extract_files, attempt, api_calls, api_errors, sleeps, extract_reply,
                   parse_calls, extract_result, outside_extract>>

\* one iteration of  for attempt in range(max_retries):  the API call, then
\* break, or raise api_error, or time.sleep and the next iteration
CallVisionModel ==
    /\ extract_pc = "calling"
    /\ attempt < max_retries
    /\ api_calls' = api_calls + 1
    /\ \/ \E text \in SessionReplies :
             /\ extract_reply' = text
             /\ extract_pc' = "replied"
             /\ UNCHANGED <<attempt, api_errors, sleeps, extract_error>>
       \/ \E api_error \in ApiErrors :
             /\ api_errors' = Append(api_errors, api_error)
             /\ IF last_attempt(attempt)
                THEN /\ extract_pc' = "raised"
                     /\ extract_error' = ExtractionErrors[api_error]
                     /\ UNCHANGED <<attempt, sleeps>>
                ELSE /\ sleeps' = Append(sleeps, backoff(attempt))
                     /\ attempt' = attempt + 1
                     /\ UNCHANGED <<extract_pc, extract_error>>
             /\ UNCHANGED extract_reply
    /\ UNCHANGED <<extract_files, parse_calls, extract_result, outside_extract>>

\* the statements after the loop: the test of the content and _parse_response
ParseReply ==
    /\ extract_pc = "replied"
    /\ IF extract_reply = ""
       THEN /\ extract_pc' = "raised"
            /\ extract_error' = ExtractionErrors["Empty response from vision model"]
            /\ UNCHANGED <<parse_calls, extract_result>>
       ELSE /\ parse_calls' = parse_calls + 1
            /\ IF ParsedReplies[extract_reply] = Raised
               THEN /\ extract_pc' = "raised"
                    /\ extract_error' = ExtractionErrors["Failed to parse JSON response"]
                    /\ UNCHANGED extract_result
               ELSE /\ extract_pc' = "returned"
                    /\ extract_result' = ParsedReplies[extract_reply]
                    /\ UNCHANGED extract_error
    /\ UNCHANGED <<extract_files, attempt, api_calls, api_errors, sleeps, extract_reply,
                   outside_extract>>

NextExtract ==
    \/ PrepareImages
    \/ CallVisionModel
    \/ ParseReply

ExtractIdle ==
    /\ extract_files = <<>>
    /\ extract_pc = "idle"
    /\ attempt = 0
    /\ api_calls = 0
    /\ api_errors = <<>>
    /\ sleeps = <<>>
    /\ extract_reply = ""
    /\ parse_calls = 0
    /\ extract_result = Raised
    /\ extract_error = NoError

\* C16: the vision API is called at most max_retries times in one
\* extraction; no call follows a success; the waits are 1 s after the
\* first failed attempt and 2 s after the second, one wait after each
\* failed attempt but the last; and when all attempts have failed the call
\* ends raising the error of the last attempt wrapped in RuntimeError, with
\* no wait after it and without a call of _parse_response.
C16_RetriesAreBoundedWithBackoff ==
    /\ api_calls <= max_retries
    /\ api_calls \in {Len(api_errors), Len(api_errors) + 1}
    /\ extract_pc \in {"replied", "returned"} => api_calls = Len(api_errors) + 1
    /\ api_calls = Len(api_errors) + 1 => extract_pc # "calling"
    /\ Len(sleeps) <= 2
    /\ \A k \in 1..Len(sleeps) : sleeps[k] = k
    /\ Len(sleeps) = (IF Len(api_errors) = max_retries THEN max_retries - 1
                      ELSE Len(api_errors))
    /\ Len(api_errors) = max_retries =>
          /\ extract_pc = "raised"
          /\ extract_error = RuntimeError(api_errors[max_retries])
          /\ parse_calls = 0
          /\ extract_result = Raised

C16_Witness ==
    /\ extract_pc = "raised"
    /\ api_errors = <<"Connection reset", "Connection reset", "Rate limit reached">>
    /\ sleeps = <<1, 2>>

\* a success on the third attempt, after two waits
C16_ThirdAttemptSucceeds ==
    /\ extract_pc = "returned"
    /\ api_calls = max_retries
    /\ sleeps = <<1, 2>>
    /\ parse_calls = 1

(***************************************************************************)
(* StrategyEngine: model selection, the text-generation call, and the      *)
(* handlers that call generate_optimization_plan                           *)
(***************************************************************************)
\* how many handlers one run makes
MaxStrategySteps == 3

\* Config and the import of the together library, as StrategyEngine.__init__
\* finds them
Engines ==
    [OPENAI_API_KEY : BOOLEAN, TOGETHER_API_KEY : BOOLEAN, TOGETHER_AVAILABLE : BOOLEAN,
     CUSTOM_LLAMA3_MODEL_ID : BOOLEAN]

\* what st.session_state.current_model can hold: a sidebar choice, or the
\* DEFAULT_MODEL of the environment
ModelChoices == {"gpt4o", "llama3_custom", "gpt4"}

\* StrategyEngine.__init__
openai_client(e) == e.OPENAI_API_KEY

together_client(e) == e.TOGETHER_API_KEY /\ e.TOGETHER_AVAILABLE

\* Config.has_custom_llama3
has_custom_llama3(e) == e.CUSTOM_LLAMA3_MODEL_ID

\* a call that ended with an exception, after so many API calls
PlanError(error, calls) == [kind |-> "error", text |-> "", error |-> error, calls |-> calls]

PlanText(text, calls) == [kind |-> "text", text |-> text, error |-> "", calls |-> calls]

\* PromptFormatter.format_for_model: the exception it raises, if any
format_for_model(model_choice) ==
    IF model_choice = "gpt4o" \/ model_choice = "llama3_custom" THEN ""
    ELSE "Unknown model choice: " \o model_choice

\* PromptFormatter.get_model_id without the test for the fine-tuned model
GetModelIdUnchecked(e, model_choice) ==
    IF model_choice = "gpt4o" \/ model_choice = "llama3_custom" THEN ""
    ELSE "Unknown model choice: " \o model_choice

\* PromptFormatter.get_model_id: the exception it raises, if any
get_model_id(e, model_choice) ==
    IF model_choice = "gpt4o" THEN ""
    ELSE IF model_choice = "llama3_custom"
    THEN IF ~has_custom_llama3(e) THEN "Custom Llama 3 model not available" ELSE ""
    ELSE "Unknown model choice: " \o model_choice

\* the API call made once more after it failed
CallWithRetry(llm) ==
    IF llm.kind = "error" THEN PlanError("API error", 2) ELSE PlanText(llm.text, 1)

\* self.openai_client.chat.completions.create / self.together_client.Complete.create
create(llm) ==
    IF llm.kind = "error" THEN PlanError("API error", 1) ELSE PlanText(llm.text, 1)

\* StrategyEngine._call_openai_model
_call_openai_model(e, llm) ==
    IF ~openai_client(e) THEN PlanError("OpenAI client not initialized", 0)
    ELSE create(llm)

\* StrategyEngine._call_together_model
_call_together_model(e, llm) ==
    IF ~e.TOGETHER_AVAILABLE THEN PlanError("Together library not available", 0)
    ELSE IF ~together_client(e) THEN PlanError("Together client not initialized", 0)
    ELSE create(llm)

\* StrategyEngine._generate_strategy
_generate_strategy(e, target_industry, target_role, model_choice, llm) ==
    IF get_system_prompt(target_industry, target_role).kind = "error"
    THEN PlanError(get_system_prompt(target_industry, target_role).error, 0)
    ELSE IF format_for_model(model_choice) # "" THEN PlanError(format_for_model(model_choice), 0)
    ELSE IF get_model_id(e, model_choice) # ""
    THEN PlanError(get_model_id(e, model_choice), 0)
    ELSE IF model_choice = "gpt4o" THEN _call_openai_model(e, llm)
    ELSE IF model_choice = "llama3_custom" THEN _call_together_model(e, llm)
    ELSE PlanError("Unknown model choice: " \o model_choice, 0)

\* StrategyEngine.validate_model_availability
validate_model_availability(e, model_choice) ==
    IF model_choice = "gpt4o" THEN openai_client(e)
    ELSE IF model_choice = "llama3_custom" THEN together_client(e) /\ has_custom_llama3(e)
    ELSE FALSE

\* StrategyEngine.get_available_models
get_available_models(e) ==
    (IF openai_client(e) THEN <<"gpt4o">> ELSE <<>>)
    \o (IF together_client(e) /\ has_custom_llama3(e) THEN <<"llama3_custom">> ELSE <<>>)

NoOutcome ==
    [caller |-> "", target_industry |-> "", target_role |-> "", model_choice |-> "",
     kind |-> "none", text |-> "", error |-> "", calls |-> 0]

Outcome(caller, target, model_choice, plan) ==
    [caller |-> caller, target_industry |-> target.industry, target_role |-> target.role,
     model_choice |-> model_choice, kind |-> plan.kind,
     text |-> plan.text, error |-> plan.error, calls |-> plan.calls]

\* st.session_state.target_industry and target_role, two free text inputs
StrategyTargets ==
    {[industry |-> "Technology", role |-> "Data Scientist"],
     [industry |-> "Technology", role |-> "Astronaut"],
     [industry |-> "Finance", role |-> "Financial Analyst"],
     [industry |-> "Retail", role |-> "Product Manager"]}

NotChecked == [model_choice |-> "", valid |-> FALSE, listed |-> <<>>]

InitStrategy ==
    /\ strategy_engine \in Engines
    /\ text_api_calls = 0
    /\ strategy_events = <<>>
    /\ strategy_report = None
    /\ strategy_examples = 0
    /\ strategy_outcome = NoOutcome
    /\ strategy_checked = NotChecked
    /\ strategy_steps = 0

\* analyze_profile, step 2: the plan, its telemetry entry, the report and
\* the training example
GeneratePlanStep ==
    /\ strategy_steps < MaxStrategySteps
    /\ \E target \in StrategyTargets, model_choice \in ModelChoices, llm \in StrategyReplies :
        LET plan == _generate_strategy(strategy_engine, target.industry, target.role,
                                       model_choice, llm)
        IN  /\ strategy_steps' = strategy_steps + 1
            /\ text_api_calls' = text_api_calls + plan.calls
            /\ strategy_outcome' = Outcome("analyze_profile", target, model_choice, plan)
            /\ strategy_events' =
                 AppendCapped(strategy_events,
                              TelemetryEntry("strategy_generation", plan.kind # "error",
                                             strategy_steps + 1))
            /\ IF plan.kind = "error"
               THEN UNCHANGED <<strategy_report, strategy_examples>>
               ELSE /\ strategy_report' = Some(plan.text)
                    /\ \E written \in BOOLEAN :
                          strategy_examples' = strategy_examples + (IF written THEN 1 ELSE 0)
            /\ UNCHANGED <<strategy_engine, strategy_checked, outside_strategy>>

\* render_chat_interface: the plan for a follow-up prompt
ChatPlanStep ==
    /\ strategy_steps < MaxStrategySteps
    /\ \E target \in StrategyTargets, model_choice \in ModelChoices, llm \in StrategyReplies :
        LET plan == _generate_strategy(strategy_engine, target.industry, target.role,
                                       model_choice, llm)
        IN  /\ strategy_steps' = strategy_steps + 1
            /\ text_api_calls' = text_api_calls + plan.calls
            /\ strategy_outcome' = Outcome("render_chat_interface", target, model_choice, plan)
            /\ strategy_report' = IF plan.kind = "error" THEN strategy_report
                                  ELSE Some(plan.text)
            /\ UNCHANGED <<strategy_engine, strategy_events, strategy_examples, strategy_checked,
                           outside_strategy>>

\* a query of validate_model_availability and of get_available_models
CheckAvailability ==
    \E model_choice \in ModelChoices :
        /\ strategy_steps < MaxStrategySteps
        /\ strategy_steps' = strategy_steps + 1
        /\ strategy_checked' = [model_choice |-> model_choice,
                                valid |-> validate_model_availability(strategy_engine, model_choice),
                                listed |-> get_available_models(strategy_engine)]
        /\ UNCHANGED <<strategy_engine, text_api_calls, strategy_events, strategy_report,
                       strategy_examples, strategy_outcome, outside_strategy>>

NextStrategy ==
    \/ GeneratePlanStep
    \/ ChatPlanStep
    \/ CheckAvailability

StrategyIdle ==
    /\ strategy_engine = [OPENAI_API_KEY |-> FALSE, TOGETHER_API_KEY |-> FALSE,
                 TOGETHER_AVAILABLE |-> FALSE, CUSTOM_LLAMA3_MODEL_ID |-> FALSE]
    /\ text_api_calls = 0
    /\ strategy_events = <<>>
    /\ strategy_report = None
    /\ strategy_examples = 0
    /\ strategy_outcome = NoOutcome
    /\ strategy_checked = NotChecked
    /\ strategy_steps = 0

\* the system prompt of the call could be built
PromptBuilt(outcome) ==
    get_system_prompt(outcome.target_industry, outcome.target_role).kind = "prompt"

\* the model choice is one of the two known ones and what it needs is configured
Configured(e, model_choice) ==
    \/ model_choice = "gpt4o" /\ openai_client(e)
    \/ model_choice = "llama3_custom" /\ together_client(e) /\ has_custom_llama3(e)

\* what a handler that called generate_optimization_plan did, when the call
\* ended with an exception: analyze_profile logged one strategy_generation
\* entry with success = false, and the report is the one from before
FailureHandled ==
    (/\ strategy_outcome' # strategy_outcome
     /\ strategy_outcome'.kind = "error") =>
        /\ strategy_report' = strategy_report
        /\ strategy_examples' = strategy_examples
        /\ strategy_outcome'.text = ""
        /\ text_api_calls' = text_api_calls + strategy_outcome'.calls
        /\ strategy_outcome'.caller = "analyze_profile" =>
              /\ Len(strategy_events') = Len(strategy_events) + 1
              /\ SubSeq(strategy_events', 1, Len(strategy_events)) = strategy_events
              /\ strategy_events'[Len(strategy_events')].event_type = "strategy_generation"
              /\ strategy_events'[Len(strategy_events')].success = FALSE

\* C17 as stated: every call of generate_optimization_plan makes exactly one
\* text-generation API call, and a failed call reaches the caller with no
\* retry and no partial result, analyze_profile logging one
\* strategy_generation entry with success = false.
C17_ExactlyOneApiCallPerPlan ==
    /\ [](strategy_outcome.caller # "" => strategy_outcome.calls = 1)
    /\ [][FailureHandled]_vars

\* C17, amended: a call of generate_optimization_plan makes at most one
\* text-generation API call, exactly one when the system prompt is built and
\* the model choice is valid and configured, and none otherwise; a failed call reaches the caller with no
\* retry and no partial result, and analyze_profile then logs exactly one
\* strategy_generation entry with success = false.
C17_AtMostOneApiCallPerPlan ==
    /\ [](strategy_outcome.caller # "" =>
            /\ strategy_outcome.calls <= 1
            /\ strategy_outcome.calls = 1 <=>
                   (/\ PromptBuilt(strategy_outcome)
                    /\ Configured(strategy_engine, strategy_outcome.model_choice)))
    /\ [][FailureHandled]_vars

\* the API call of analyze_profile failed: one call, one failure entry
C17_Witness ==
    /\ strategy_outcome.caller = "analyze_profile"
    /\ strategy_outcome.kind = "error"
    /\ strategy_outcome.calls = 1
    /\ strategy_events # <<>>
    /\ strategy_events[Len(strategy_events)].success = FALSE

\* C18: a text-generation API call is made only for a model choice that is
\* valid and configured: any other model_choice than "gpt4o" and
\* "llama3_custom" ends with an error and no API call; "llama3_custom"
\* leads to an API call only with the Together client and the fine-tuned
\* model id configured, and otherwise ends with an error and no API call;
\* and validate_model_availability(m) is true exactly for the m that
\* get_available_models() lists.
C18_ApiCallOnlyForConfiguredModel ==
    /\ strategy_outcome.calls > 0 => Configured(strategy_engine, strategy_outcome.model_choice)
    /\ (/\ strategy_outcome.caller # ""
        /\ strategy_outcome.model_choice \notin {"gpt4o", "llama3_custom"}) =>
            strategy_outcome.kind = "error" /\ strategy_outcome.calls = 0
    /\ (/\ strategy_outcome.caller # ""
        /\ strategy_outcome.model_choice = "llama3_custom"
        /\ ~(strategy_engine.TOGETHER_API_KEY /\ together_client(strategy_engine)
             /\ strategy_engine.CUSTOM_LLAMA3_MODEL_ID)) =>
            strategy_outcome.kind = "error" /\ strategy_outcome.calls = 0
    /\ text_api_calls > 0 => get_available_models(strategy_engine) # <<>>
    /\ strategy_checked.model_choice # "" =>
          (strategy_checked.valid <=> InSeq(strategy_checked.model_choice,
                                            strategy_checked.listed))
    /\ \A m \in ModelChoices :
          validate_model_availability(strategy_engine, m) <=> InSeq(m, get_available_models(strategy_engine))

\* "llama3_custom" was chosen with the key and the library present but no
\* fine-tuned model id: an error, no API call, and the model is not listed
C18_Witness ==
    /\ strategy_outcome.model_choice = "llama3_custom"
    /\ strategy_engine.TOGETHER_API_KEY /\ strategy_engine.TOGETHER_AVAILABLE /\ ~strategy_engine.CUSTOM_LLAMA3_MODEL_ID
    /\ strategy_outcome.kind = "error"
    /\ strategy_outcome.calls = 0
    /\ strategy_checked.model_choice = "llama3_custom"
    /\ ~strategy_checked.valid

\* an API call for "llama3_custom", fully configured
C18_ConfiguredLlamaCalled ==
    /\ strategy_outcome.model_choice = "llama3_custom"
    /\ strategy_outcome.calls = 1
    /\ strategy_checked.valid

(***************************************************************************)
(* Claims about logging                                                    *)
(***************************************************************************)
\* C19: no handler of the page ends with the exception of a logging call:
\* whatever fails while a telemetry event, user feedback or a training
\* example is recorded stays inside the logger, so the page never shows the
\* error of a logging call in place of its content.
C19_LoggingNeverEndsTheFlow ==
    session_message #
        ApplicationError("'TelemetryLogger' object has no attribute 'log_feedback'")

\* feedback was submitted on a report: the page shows the error, and the
\* telemetry buffer holds no user_feedback entry
C19_FeedbackLost ==
    /\ optimization_report # None
    /\ session_message =
         ApplicationError("'TelemetryLogger' object has no attribute 'log_feedback'")
    /\ \A n \in 1..Len(local_logs) : local_logs[n].event_type # "user_feedback"

(***************************************************************************)
(* TrainingLogger: the dataset file, one JSON line per example             *)
(***************************************************************************)
\* how many calls one run makes
MaxTrainingSteps == 3

\* the texts that are logged: one holds a line break and quotes
TrainingTexts == {"Dev", "Lead\n\"Ops\""}

\* the target and the model of the examples
TrainingSidebar ==
    [target_industry |-> "Technology", target_role |-> "Software Engineer",
     current_model |-> "gpt4o"]

\* a str written without escaping
DumpsStrRaw(s) == "\"" \o s \o "\""

\* json.dumps of a str
dumps_str(s) == DumpStr(s, [style |-> "line", escape |-> TRUE, trailing_comma |-> FALSE])

\* json.dumps of a str or None
dumps_optional(v) == IF v = None THEN "null" ELSE dumps_str(v[1])

\* json.dumps of a dict, the members in order
dumps_dict(members) == "{" \o Join(members, ", ") \o "}"

\* datetime.utcnow().isoformat(), the n-th call
isoformat(n) == "2026-01-01T00:00:0" \o IntToStr(n)

\* log_training_example: json.dumps(example)
TrainingExample(at, input_text, sidebar, output_text, feedback_score) ==
    dumps_dict(<<
        Member("timestamp", dumps_str(isoformat(at))),
        Member("input", dumps_dict(<<
            Member("profile_data", dumps_str(input_text)),
            Member("target_industry", dumps_str(sidebar.target_industry)),
            Member("target_role", dumps_str(sidebar.target_role)),
            Member("additional_context", dumps_optional(None))>>)),
        Member("output", dumps_str(output_text)),
        Member("metadata", dumps_dict(<<
            Member("model_choice", dumps_str(sidebar.current_model)),
            Member("feedback_score", dumps_optional(feedback_score)),
            Member("input_length", IntToStr(Len(input_text))),
            Member("output_length", IntToStr(Len(output_text)))>>))>>)

\* log_section_feedback: json.dumps(example)
SectionExample(at, section, current_text, recommended_text, sidebar, feedback_type) ==
    dumps_dict(<<
        Member("timestamp", dumps_str(isoformat(at))),
        Member("type", dumps_str("section_optimization")),
        Member("input", dumps_dict(<<
            Member("section_name", dumps_str(section)),
            Member("current_text", dumps_str(current_text)),
            Member("target_industry", dumps_str(sidebar.target_industry)),
            Member("target_role", dumps_str(sidebar.target_role))>>)),
        Member("output", dumps_str(recommended_text)),
        Member("metadata", dumps_dict(<<
            Member("model_choice", dumps_str(sidebar.current_model)),
            Member("feedback_type", dumps_str(feedback_type)),
            Member("input_length", IntToStr(Len(current_text))),
            Member("output_length", IntToStr(Len(recommended_text)))>>))>>)

\* the lines the logging calls of this model write
LoggedLines ==
    {TrainingExample(at, input_text, TrainingSidebar, "Plan", feedback_score) :
        at \in 1..MaxTrainingSteps, input_text \in TrainingTexts,
        feedback_score \in {None, Some("positive")}}
    \cup {SectionExample(at, "headline", "Dev", recommended_text, TrainingSidebar,
                         feedback_type) :
             at \in 1..MaxTrainingSteps, recommended_text \in TrainingTexts,
             feedback_type \in {"positive", "negative"}}

\* json.loads(line), for each of them
LoadedLines == [line \in LoggedLines |-> JsonLoads(line)]

\* json.loads(line)
loads(line) == IF line \in LoggedLines THEN LoadedLines[line] ELSE JsonLoads(line)

\* s.split(sep)
RECURSIVE Split(_, _)
Split(s, sep) ==
    LET i == Find(s, sep)
    IN  IF i = -1 THEN <<s>>
        ELSE <<Slice(s, 0, i)>> \o Split(SliceFrom(s, i + Len(sep)), sep)

\* s.strip(), from the ends inwards
RECURSIVE StripEnds(_)
StripEnds(s) ==
    IF s = "" THEN ""
    ELSE IF CharAt(s, 0) \in PyWhitespace THEN StripEnds(SliceFrom(s, 1))
    ELSE IF CharAt(s, Len(s) - 1) \in PyWhitespace THEN StripEnds(Slice(s, 0, Len(s) - 1))
    ELSE s

\* the loop of _read_existing_examples: a line that is no JSON ends the
\* reading with what was read so far
RECURSIVE ReadLines(_, _)
ReadLines(lines, examples) ==
    IF lines = <<>> THEN examples
    ELSE IF StripEnds(Head(lines)) = "" THEN ReadLines(Tail(lines), examples)
    ELSE LET loaded == loads(Head(lines))
         IN  IF ~loaded.ok THEN examples
             ELSE ReadLines(Tail(lines), Append(examples, loaded.v))

\* TrainingLogger._read_existing_examples
_read_existing_examples(file) ==
    LET content == StripEnds(file)
    IN  IF content = "" THEN <<>> ELSE ReadLines(Split(content, "\n"), <<>>)

\* example.get("metadata", {}).get("feedback_score")
FeedbackScore(example) ==
    IF ~ObjHas(example.o, "metadata") THEN "none"
    ELSE LET metadata == ObjGet(example.o, "metadata")
         IN  IF ~ObjHas(metadata.o, "feedback_score") THEN "none"
             ELSE LET score == ObjGet(metadata.o, "feedback_score")
                  IN  IF score.t = "s" THEN score.s ELSE "none"

CountScore(examples, score) ==
    Cardinality({n \in 1..Len(examples) : FeedbackScore(examples[n]) = score})

\* TrainingLogger.get_dataset_stats: the counts
get_dataset_stats(file) ==
    LET examples == _read_existing_examples(file)
    IN  [total_examples |-> Len(examples),
         positive_examples |-> CountScore(examples, "positive"),
         negative_examples |-> CountScore(examples, "negative"),
         neutral_examples |->
             Len(examples) - CountScore(examples, "positive")
                 - CountScore(examples, "negative")]

NotCalled == [call |-> "", value |-> FALSE, line |-> ""]

InitTraining ==
    /\ dataset_path \in {None, Some("training_dataset.jsonl")}
    /\ dataset_file = ""
    /\ training_returned = NotCalled
    /\ logged_examples = 0
    /\ dataset_stats = None
    /\ training_steps = 0

\* the end of both logging methods: no path, or an exception before the
\* write (the file cannot be opened, the example cannot be serialized), or
\* one line appended
AppendExample(call, line, fails) ==
    /\ training_steps < MaxTrainingSteps
    /\ training_steps' = training_steps + 1
    /\ IF dataset_path = None \/ fails
       THEN /\ training_returned' = [call |-> call, value |-> FALSE, line |-> ""]
            /\ UNCHANGED <<dataset_file, logged_examples>>
       ELSE /\ dataset_file' = dataset_file \o line \o "\n"
            /\ training_returned' = [call |-> call, value |-> TRUE, line |-> line]
            /\ logged_examples' = logged_examples + 1
    /\ UNCHANGED <<dataset_path, dataset_stats, outside_training>>

\* TrainingLogger.log_training_example
log_training_example ==
    \E input_text \in TrainingTexts, feedback_score \in {None, Some("positive")},
       fails \in BOOLEAN :
        AppendExample("log_training_example",
                      TrainingExample(training_steps + 1, input_text, TrainingSidebar,
                                      "Plan", feedback_score),
                      fails)

\* TrainingLogger.log_section_feedback
log_section_feedback ==
    \E recommended_text \in TrainingTexts, feedback_type \in {"positive", "negative"},
       fails \in BOOLEAN :
        AppendExample("log_section_feedback",
                      SectionExample(training_steps + 1, "headline", "Dev", recommended_text,
                                     TrainingSidebar, feedback_type),
                      fails)

\* a call of get_dataset_stats; os.path.exists(None) raises TypeError
GetDatasetStats ==
    /\ training_steps < MaxTrainingSteps
    /\ training_steps' = training_steps + 1
    /\ dataset_stats' = IF dataset_path = None THEN Some("TypeError")
                        ELSE Some(get_dataset_stats(dataset_file))
    /\ training_returned' = [call |-> "get_dataset_stats", value |-> dataset_path # None,
                             line |-> ""]
    /\ UNCHANGED <<dataset_path, dataset_file, logged_examples, outside_training>>

\* TrainingLogger.clear_dataset
clear_dataset ==
    \E fails \in BOOLEAN :
        /\ training_steps < MaxTrainingSteps
        /\ training_steps' = training_steps + 1
        /\ IF dataset_path = None \/ fails
           THEN /\ training_returned' = [call |-> "clear_dataset", value |-> FALSE,
                                         line |-> ""]
                /\ UNCHANGED <<dataset_file, logged_examples>>
           ELSE /\ dataset_file' = ""
                /\ logged_examples' = 0
                /\ training_returned' = [call |-> "clear_dataset", value |-> TRUE,
                                         line |-> ""]
        /\ UNCHANGED <<dataset_path, dataset_stats, outside_training>>

NextTraining ==
    \/ log_training_example
    \/ log_section_feedback
    \/ GetDatasetStats
    \/ clear_dataset

TrainingIdle ==
    /\ dataset_path = None
    /\ dataset_file = ""
    /\ training_returned = NotCalled
    /\ logged_examples = 0
    /\ dataset_stats = None
    /\ training_steps = 0

\* a logging call returned True in this step
LoggedOne ==
    /\ training_steps' # training_steps
    /\ training_returned'.call \in {"log_training_example", "log_section_feedback"}
    /\ training_returned'.value

\* C20: a logging call that returns True appends exactly one line, which is
\* a JSON text, to the dataset file and leaves what the file held unchanged;
\* and get_dataset_stats counts as total_examples the calls that returned
\* True since the file was empty.
C20_DatasetIsAppendOnly ==
    /\ [][LoggedOne =>
            /\ dataset_file' = dataset_file \o training_returned'.line \o "\n"
            /\ Find(training_returned'.line, "\n") = -1
            /\ loads(training_returned'.line).ok]_vars
    /\ [](get_dataset_stats(dataset_file).total_examples = logged_examples)
    /\ [](dataset_stats # None /\ dataset_path # None /\ training_returned.call = "get_dataset_stats"
            => dataset_stats[1].total_examples = logged_examples)

\* three examples logged, one with a line break and quotes in its text
C20_Witness ==
    /\ logged_examples = 3
    /\ Find(dataset_file, "Lead") # -1
    /\ get_dataset_stats(dataset_file).total_examples = 3

\* the statistics were read after two logged examples
C20_StatsAfterTwo ==
    /\ training_returned.call = "get_dataset_stats"
    /\ logged_examples = 2
    /\ dataset_stats = Some(get_dataset_stats(dataset_file))
    /\ dataset_stats[1].total_examples = 2

(***************************************************************************)
(* Claims about the dataset statistics                                     *)
(***************************************************************************)
\* the feedback an example was logged with: the feedback_score of
\* log_training_example, the feedback_type of log_section_feedback
LoggedFeedback(example) ==
    LET metadata == ObjGet(example.o, "metadata").o
        label == IF ObjHas(metadata, "feedback_type") THEN ObjGet(metadata, "feedback_type")
                 ELSE ObjGet(metadata, "feedback_score")
    IN  IF label.t = "s" THEN label.s ELSE "none"

LoggedWith(file, feedback) ==
    LET examples == _read_existing_examples(file)
    IN  Cardinality({n \in 1..Len(examples) : LoggedFeedback(examples[n]) = feedback})

\* C21: the three feedback counts of get_dataset_stats add up to
\* total_examples, and positive_examples and negative_examples are the
\* numbers of stored examples logged with positive and with negative
\* feedback, by log_training_example or by log_section_feedback.
C21_StatsCountLoggedFeedback ==
    LET stats == get_dataset_stats(dataset_file)
    IN  /\ stats.positive_examples + stats.negative_examples + stats.neutral_examples
              = stats.total_examples
        /\ stats.positive_examples = LoggedWith(dataset_file, "positive")
        /\ stats.negative_examples = LoggedWith(dataset_file, "negative")

\* the counts add up, whatever was logged
C21_CountsAddUp ==
    LET stats == get_dataset_stats(dataset_file)
    IN  stats.positive_examples + stats.negative_examples + stats.neutral_examples
            = stats.total_examples

\* one section feedback, negative, is all the file holds, and the
\* statistics were read: it is counted as neutral
C21_SectionFeedbackCountedNeutral ==
    /\ training_returned.call = "get_dataset_stats"
    /\ logged_examples = 1
    /\ LoggedWith(dataset_file, "negative") = 1
    /\ dataset_stats # None
    /\ dataset_stats[1].negative_examples = 0
    /\ dataset_stats[1].neutral_examples = 1

(***************************************************************************)
(* Claims about the completeness score formula                             *)
(***************************************************************************)
\* C22 as stated: the completeness score is 95 without gaps, and otherwise
\* max(30, 95 - min(50, round(50 * total_impact / (10 * gap_count)))), so
\* that it lies in 30..95.
C22_ScoreRoundsTheDeduction ==
    /\ completeness_score = CompletenessScoreRounded(scored_gaps)
    /\ completeness_score \in 30..95

\* C22: the completeness score is 95 without gaps; otherwise it is
\* max(30, 95 - min(50, d)) where d is 50 * total_impact / (10 * gap_count)
\* cut to its integer part (d <= 50 * total_impact / max_impact < d + 1, and
\* one below that when the double product falls just short of an integer);
\* it lies in 30..95.
C22_ScoreTruncatesTheDeduction ==
    LET total_impact == TotalImpact(scored_gaps)
        max_impact == MaxImpactScore * Len(scored_gaps)
        deduction == 95 - completeness_score
    IN  /\ completeness_score \in 30..95
        /\ scored_gaps = <<>> => completeness_score = 95
        /\ scored_gaps # <<>> =>
              /\ deduction \in 0..50
              /\ \/ /\ deduction * max_impact <= 50 * total_impact
                    /\ 50 * total_impact < (deduction + 1) * max_impact
                 \/ /\ 50 * total_impact = 29 * max_impact
                    /\ deduction = 28

\* two gaps of impact 1 and 2: the deduction 7.5 is cut to 7
C22_Witness ==
    /\ Len(scored_gaps) = 2
    /\ TotalImpact(scored_gaps) = 3
    /\ completeness_score = 88

(***************************************************************************)
(* Claims about role matching                                              *)
(***************************************************************************)
\* the benchmarks get_perfect_profile_template works with for the target of
\* the analysis
MatchedBenchmarks ==
    _find_best_role_match(gap_target.role, IndustryBenchmarks(gap_target.industry))

\* the benchmarks of a role of the industry's table, NoBenchmarks without it
BenchmarksOf(industry, role) ==
    FirstBenchmarks(IndustryBenchmarks(industry), LAMBDA b : b.role = role)

ExactRole ==
    \E n \in 1..Len(IndustryBenchmarks(gap_target.industry)) :
        Lower(IndustryBenchmarks(gap_target.industry)[n].role) = Lower(gap_target.role)

ContainedKeywords ==
    {n \in 1..Len(role_keywords) : Contains(Lower(gap_target.role), role_keywords[n][1])}

\* C23: a role equal, letter case apart, to a key of the industry's table
\* gets that key's benchmarks; otherwise a role containing a keyword gets the
\* benchmarks of the role the keyword is mapped to, a role containing
\* 'devops' those of DevOps Engineer; a role matching nothing gets the
\* generic benchmarks.
C23_RoleMatchedByKeyword ==
    gap_pc = "analyzed" =>
        IF ExactRole
        THEN MatchedBenchmarks
                 = FirstBenchmarks(IndustryBenchmarks(gap_target.industry),
                                   LAMBDA b : Lower(b.role) = Lower(gap_target.role))
        ELSE IF ContainedKeywords # {}
        THEN /\ \E n \in ContainedKeywords :
                    MatchedBenchmarks = BenchmarksOf(gap_target.industry, role_keywords[n][2])
             /\ Contains(Lower(gap_target.role), "devops") =>
                    MatchedBenchmarks = BenchmarksOf(gap_target.industry, "DevOps Engineer")
        ELSE MatchedBenchmarks = NoBenchmarks

\* 'Senior DevOps Engineer' analysed against the Software Engineer benchmarks
C23_DevOpsRoleGetsSoftwareEngineer ==
    /\ gap_pc = "analyzed"
    /\ gap_target = [industry |-> "Technology", role |-> "Senior DevOps Engineer"]
    /\ MatchedBenchmarks = BenchmarksOf("Technology", "Software Engineer")
    /\ MatchedBenchmarks # BenchmarksOf("Technology", "DevOps Engineer")

\* 'DevOps Lead' analysed against the DevOps Engineer benchmarks
C23_DevOpsLeadGetsDevOps ==
    /\ gap_pc = "analyzed"
    /\ gap_target = [industry |-> "Technology", role |-> "DevOps Lead"]
    /\ MatchedBenchmarks = BenchmarksOf("Technology", "DevOps Engineer")

(***************************************************************************)
(* Claims about the end of an extracted section                            *)
(***************************************************************************)
\* where the other fixed headings occur after position start_pos
HeadingsAfter(a_report, name, start_pos) ==
    {FindFrom(a_report, section_headers[n], start_pos + 1) :
        n \in {m \in 1..Len(section_headers) :
                  /\ section_headers[m] # name
                  /\ FindFrom(a_report, section_headers[m], start_pos + 1) # -1}}

\* the nearest of them, the end of the report without one
NearestHeadingAfter(a_report, name, start_pos) ==
    IF HeadingsAfter(a_report, name, start_pos) = {} THEN Len(a_report)
    ELSE MinOf(HeadingsAfter(a_report, name, start_pos))

\* C24: for a known section name that occurs in the report, the slice
\* _find_section returns runs from the section's heading to the nearest
\* other known heading after it, or to the end of the report when none
\* follows, whatever the order of the headings and also when a heading is
\* mentioned before the section.
C24_SliceEndsAtNearestHeading ==
    (/\ section_pc = "found"
     /\ HeaderIndex(section_name) # 0
     /\ Find(report, section_name) # -1)
        => section_result =
               SectionText(Slice(report, Find(report, section_name),
                                 NearestHeadingAfter(report, section_name,
                                                     Find(report, section_name))))

\* the headline section of a report that puts the skills section between
\* the headline and the about section: the slice holds the skills section
C24_SliceRunsOverNextSection ==
    /\ section_pc = "found"
    /\ section_name = HeadlineHeading
    /\ Find(report, HeadlineHeading) # -1
    /\ Find(report, "SKILLS STRATEGY") > Find(report, HeadlineHeading)
    /\ Find(report, AboutHeading) > Find(report, "SKILLS STRATEGY")
    /\ section_result.kind = "text"
    /\ Contains(section_result.text, "SKILLS STRATEGY")

\* the headings in list order and none mentioned early: the slice ends at
\* the nearest heading
C24_InOrderEndsAtNearest ==
    /\ section_pc = "found"
    /\ section_name = HeadlineHeading
    /\ Find(report, AboutHeading) > Find(report, HeadlineHeading)
    /\ Find(report, HeadlineHeading) > 0
    /\ section_result =
           SectionText(Slice(report, Find(report, HeadlineHeading),
                             NearestHeadingAfter(report, HeadlineHeading,
                                                 Find(report, HeadlineHeading))))

(***************************************************************************)
(* Two telemetry loggers over one log file (src/src/telemetry.py).  Every  *)
(* process that imports the module builds its own TelemetryLogger over the *)
(* same Config.TEMP_DIR/telemetry_logs.json.  The steps of an instance     *)
(* that touch the file are separate actions: the load of __init__, the     *)
(* open(..., 'w') of _save_logs, which empties the file, and json.dump.    *)
(***************************************************************************)
Instances == {1, 2}

\* how many events the instances log together
MaxSharedEvents == 3

\* json.dump(self.local_logs, f) into the file just opened: the file takes
\* the buffer, whatever another instance has written meanwhile
DumpKeepingFile(file, logs) ==
    file \o SelectSeq(logs, LAMBDA e : ~InSeq(e, file))

json_dump(file, logs) == logs

InitShared ==
    /\ shared_file \in StartFiles
    /\ instance_logs = [i \in Instances |-> <<>>]
    /\ instance_pc = [i \in Instances |-> "absent"]
    /\ saved_events = {}
    /\ shared_clock = 0

\* TelemetryLogger(): self.local_logs = [], then _load_logs
NewLogger(i) ==
    /\ instance_pc[i] = "absent"
    /\ instance_logs' = [instance_logs EXCEPT ![i] = shared_file]
    /\ instance_pc' = [instance_pc EXCEPT ![i] = "idle"]
    /\ UNCHANGED <<shared_file, saved_events, shared_clock, outside_shared>>

\* _add_log_entry up to the call of _save_logs: append and cap
AppendEntry(i) ==
    /\ instance_pc[i] = "idle"
    /\ shared_clock < MaxSharedEvents
    /\ \E event_type \in {"vision_extraction", "strategy_generation"} :
          instance_logs' =
              [instance_logs EXCEPT
                  ![i] = AppendCapped(@, [timestamp |-> shared_clock + 1,
                                          event_type |-> event_type, success |-> TRUE])]
    /\ shared_clock' = shared_clock + 1
    /\ instance_pc' = [instance_pc EXCEPT ![i] = "appended"]
    /\ UNCHANGED <<shared_file, saved_events, outside_shared>>

\* _save_logs: open(self.log_file_path, 'w') empties the file
OpenLogFile(i) ==
    /\ instance_pc[i] = "appended"
    /\ shared_file' = <<>>
    /\ instance_pc' = [instance_pc EXCEPT ![i] = "opened"]
    /\ UNCHANGED <<instance_logs, saved_events, shared_clock, outside_shared>>

\* _save_logs: json.dump and the close of the file; _add_log_entry returns
DumpLogs(i) ==
    /\ instance_pc[i] = "opened"
    /\ shared_file' = json_dump(shared_file, instance_logs[i])
    /\ saved_events' = saved_events \cup {instance_logs[i][Len(instance_logs[i])]}
    /\ instance_pc' = [instance_pc EXCEPT ![i] = "idle"]
    /\ UNCHANGED <<instance_logs, shared_clock, outside_shared>>

NextShared ==
    \/ \E i \in Instances : NewLogger(i)
    \/ \E i \in Instances : AppendEntry(i)
    \/ \E i \in Instances : OpenLogFile(i)
    \/ \E i \in Instances : DumpLogs(i)

SharedIdle ==
    /\ shared_file = <<>>
    /\ instance_logs = [i \in Instances |-> <<>>]
    /\ instance_pc = [i \in Instances |-> "off"]
    /\ saved_events = {}
    /\ shared_clock = 0

(***************************************************************************)
(* Claims about concurrent telemetry writers                               *)
(***************************************************************************)
\* an instance finishes a save in this step
FinishesSave(i) == instance_pc[i] = "opened" /\ instance_pc'[i] = "idle"

\* C25: every logged event rewrites the whole log file from the logger's
\* own buffer, with no lock and no re-read: the save of an instance leaves
\* in the file exactly that instance's buffer, and the buffer of a running
\* instance changes only by the entry the instance itself appends.  With
\* two instances over one file an event logged successfully by one of them
\* can be absent from the file afterwards (C25_EventLost).
C25_SaveRewritesFromOwnBuffer ==
    [][\A i \in Instances :
          /\ FinishesSave(i) => shared_file' = instance_logs[i]
          /\ (instance_pc[i] # "absent" /\ instance_logs'[i] # instance_logs[i]) =>
                /\ instance_pc[i] = "idle"
                /\ Len(instance_logs'[i]) = Len(instance_logs[i]) + 1
                /\ SubSeq(instance_logs'[i], 1, Len(instance_logs[i])) = instance_logs[i]
                /\ instance_logs'[i][Len(instance_logs'[i])].timestamp = shared_clock + 1]_vars

\* both instances are at rest, both have saved an event, and an event that
\* was saved is not in the file
C25_EventLost ==
    /\ \A i \in Instances : instance_pc[i] = "idle"
    /\ \E e \in saved_events : ~InSeq(e, shared_file)
    /\ \A i \in Instances :
          \E e \in saved_events : InSeq(e, instance_logs[i]) /\ e.timestamp > 0

(***************************************************************************)
(* Claims about the system prompt                                          *)
(***************************************************************************)
\* the industry is a key of INDUSTRY_DATA
HasIndustryData(industry) ==
    \E n \in 1..Len(INDUSTRY_DATA) : INDUSTRY_DATA[n].industry = industry

\* C29: get_system_prompt returns a prompt for every target industry and
\* role: an industry absent from INDUSTRY_DATA uses the Technology data, a
\* role listed in the industry's role_specific table uses that role's skills
\* and metrics, an unlisted role uses fallback role data; no call of
\* generate_optimization_plan fails while the system prompt is built.
C29_SystemPromptAlwaysBuilt ==
    strategy_outcome.caller # "" =>
        LET prompt == get_system_prompt(strategy_outcome.target_industry,
                                        strategy_outcome.target_role)
            industry_info == IndustryInfo(strategy_outcome.target_industry)
        IN  /\ prompt.kind = "prompt"
            /\ strategy_outcome.error # "KeyError: 'Software Engineer'"
            /\ prompt.industry = (IF HasIndustryData(strategy_outcome.target_industry)
                                  THEN strategy_outcome.target_industry ELSE "Technology")
            /\ HasRoleData(industry_info, strategy_outcome.target_role) =>
                  /\ prompt.role_skills
                         = RoleData(industry_info, strategy_outcome.target_role).skills
                  /\ prompt.role_metrics
                         = RoleData(industry_info, strategy_outcome.target_role).metrics
            /\ ~HasRoleData(industry_info, strategy_outcome.target_role) =>
                  prompt.role_skills # <<>> /\ prompt.role_metrics # <<>>

\* a plan for Finance / Financial Analyst with a configured model: the call
\* ended with the KeyError and made no API call
C29_FinancePlanFails ==
    /\ strategy_outcome.caller = "analyze_profile"
    /\ strategy_outcome.target_industry = "Finance"
    /\ strategy_outcome.target_role = "Financial Analyst"
    /\ Configured(strategy_engine, strategy_outcome.model_choice)
    /\ strategy_outcome.kind = "error"
    /\ strategy_outcome.error = "KeyError: 'Software Engineer'"
    /\ strategy_outcome.calls = 0

\* a plan for an industry without data and for an unlisted Technology role:
\* the prompt is built from the Technology data
C29_TechnologyDataUsed ==
    /\ strategy_outcome.caller # ""
    /\ strategy_outcome.target_industry = "Retail"
    /\ strategy_outcome.kind = "text"
    /\ get_system_prompt("Retail", "Product Manager").industry = "Technology"
    /\ get_system_prompt("Retail", "Product Manager").role_skills[1] = "Product Strategy"
    /\ get_system_prompt("Technology", "Astronaut").role_skills[1] = "Python"

(***************************************************************************)
(* Dynamic checklist (src/src/dynamic_checklist.py).  A task keeps the     *)
(* fields the order of the list is made from and read through; the         *)
(* description is left out.                                                *)
(***************************************************************************)
\* class TaskPriority(Enum): the values
TaskPriority == [HIGH |-> "high", MEDIUM |-> "medium", LOW |-> "low"]

ChecklistTask(title, priority, estimated_time, impact_level, section) ==
    [id |-> "", title |-> title, priority |-> priority, estimated_time |-> estimated_time,
     impact_level |-> impact_level, section |-> section]

\* repr(s) of a str without a double quote in it
Repr(s) == IF Contains(s, "'") THEN "\"" \o s \o "\"" ELSE "'" \o s \o "'"

\* str(feedback) of a list of str
StrOfList(items) ==
    "[" \o Join([n \in 1..Len(items) |-> Repr(items[n])], ", ") \o "]"

\* <<t>> if the condition holds, else nothing
TaskIf(cond, t) == IF cond THEN <<t>> ELSE <<>>

_analyze_headline(headline, headline_score) ==
    TaskIf(headline = "" \/ Len(headline) < 60,
           ChecklistTask("Create Compelling Headline", TaskPriority.HIGH, "10 min", "High",
                         "Headline"))
    \o TaskIf(/\ headline_score.score < 80
              /\ Contains(StrOfList(headline_score.feedback), "value proposition"),
              ChecklistTask("Add Value Proposition", TaskPriority.HIGH, "5 min", "High",
                            "Headline"))

_analyze_about_section(about, about_score) ==
    TaskIf(WordCount(about) < 300,
           ChecklistTask("Expand About Section", TaskPriority.HIGH, "20 min", "High", "About"))
    \o TaskIf(/\ about_score.score < 70
              /\ Contains(StrOfList(about_score.feedback), "storytelling"),
              ChecklistTask("Add Career Story", TaskPriority.MEDIUM, "15 min", "Medium",
                            "About"))
    \o TaskIf(/\ about_score.score < 70
              /\ Contains(StrOfList(about_score.feedback), "quantifiable"),
              ChecklistTask("Add Measurable Achievements", TaskPriority.HIGH, "10 min", "High",
                            "About"))

\* the words that make a description count as one with metrics
metric_indicators == <<"%", "$", "number", "increased", "decreased">>

RECURSIVE MetricTasks(_)
MetricTasks(experiences) ==
    IF experiences = <<>> THEN <<>>
    ELSE TaskIf(~\E n \in 1..Len(metric_indicators) :
                    Contains(Lower(Head(experiences).description), metric_indicators[n]),
                ChecklistTask("Add Metrics to " \o Head(experiences).title,
                              TaskPriority.HIGH, "10 min", "High", "Experience"))
         \o MetricTasks(Tail(experiences))

_analyze_experience_section(experiences, experience_score) ==
    IF experiences = <<>>
    THEN <<ChecklistTask("Add Experience Entries", TaskPriority.HIGH, "30 min", "High",
                         "Experience")>>
    ELSE MetricTasks(experiences)
         \o TaskIf(/\ experience_score.score < 70
                   /\ Contains(StrOfList(experience_score.feedback), "action verbs"),
                   ChecklistTask("Add Action Verbs", TaskPriority.HIGH, "15 min", "High",
                                 "Experience"))

_analyze_skills_section(skills, skills_score) ==
    TaskIf(Len(skills) < 10,
           ChecklistTask("Add More Skills", TaskPriority.HIGH, "10 min", "High", "Skills"))
    \o TaskIf(/\ skills_score.score < 70
              /\ Contains(StrOfList(skills_score.feedback), "industry-relevant"),
              ChecklistTask("Add Industry-Specific Skills", TaskPriority.HIGH, "15 min",
                            "High", "Skills"))

_get_general_optimization_tasks ==
    <<ChecklistTask("Get Recommendations", TaskPriority.MEDIUM, "20 min", "Medium", "General"),
      ChecklistTask("Plan Content Strategy", TaskPriority.LOW, "30 min", "Low", "General")>>

\* the place of a letter in the order str comparison uses
Ord(c) == Find(UpperLetters \o LowerLetters, c)

\* a < b for two str of letters
RECURSIVE StrLess(_, _)
StrLess(a, b) ==
    IF b = "" THEN FALSE
    ELSE IF a = "" THEN TRUE
    ELSE IF CharAt(a, 0) = CharAt(b, 0) THEN StrLess(SliceFrom(a, 1), SliceFrom(b, 1))
    ELSE Ord(CharAt(a, 0)) < Ord(CharAt(b, 0))

\* the key of the sort: (x.priority.value, x.impact_level), compared as tuples
KeyLess(a, b) ==
    \/ StrLess(a.priority, b.priority)
    \/ a.priority = b.priority /\ StrLess(a.impact_level, b.impact_level)

\* for i, task in enumerate(checklist_tasks): task.id = f"task_{i+1}"
AssignIds(tasks) == [i \in 1..Len(tasks) |-> [tasks[i] EXCEPT !.id = "task_" \o IntToStr(i)]]

\* generate_dynamic_checklist: collect, sort(key=..., reverse=True), number
generate_dynamic_checklist(profile, quality_scores) ==
    LET collected ==
            _analyze_headline(profile.headline, quality_scores.headline)
            \o _analyze_about_section(profile.about, quality_scores.about)
            \o _analyze_experience_section(profile.experience, quality_scores.experience)
            \o _analyze_skills_section(profile.skills, quality_scores.skills)
            \o _get_general_optimization_tasks
    IN  AssignIds(StableSort(collected, LAMBDA a, b : KeyLess(b, a)))

(***************************************************************************)
(* The checklist as a state machine: the page scores the stored profile    *)
(* and hands profile and scores to generate_dynamic_checklist.             *)
(***************************************************************************)
ChecklistProfiles ==
    ExtremeProfiles
    \cup [headline : {"", FullHeadline}, about : {"", "I code"}, experience : {<<>>},
          skills : {<<>>, <<"Python", "Leadership">>}]

InitChecklist ==
    /\ checklist_input \in [profile : ChecklistProfiles, target : ScorerTargets]
    /\ checklist_pc = "ready"
    /\ checklist_tasks = <<>>

GenerateDynamicChecklist ==
    /\ checklist_pc = "ready"
    /\ checklist_tasks' =
           generate_dynamic_checklist(
               checklist_input.profile,
               calculate_overall_score(checklist_input.profile, checklist_input.target.industry,
                                       checklist_input.target.role))
    /\ checklist_pc' = "generated"
    /\ UNCHANGED <<checklist_input, outside_checklist>>

NextChecklist == GenerateDynamicChecklist

ChecklistIdle ==
    /\ checklist_input = [profile |-> EmptyProfile,
                          target |-> [industry |-> "Technology", role |-> "Software Engineer"]]
    /\ checklist_pc = "idle"
    /\ checklist_tasks = <<>>

(***************************************************************************)
(* Claims about the checklist                                              *)
(***************************************************************************)
\* HIGH first, then MEDIUM, then LOW
PriorityRank(priority) ==
    CASE priority = TaskPriority.HIGH -> 0
      [] priority = TaskPriority.MEDIUM -> 1
      [] OTHER -> 2

\* C27: the tasks generate_dynamic_checklist returns are ordered by
\* priority, every HIGH task before every MEDIUM task and every MEDIUM task
\* before every LOW task, and carry the ids task_1..task_n in that order.
C27_HighBeforeMediumBeforeLow ==
    checklist_pc = "generated" =>
        /\ \A i, j \in 1..Len(checklist_tasks) :
              i < j => PriorityRank(checklist_tasks[i].priority)
                           <= PriorityRank(checklist_tasks[j].priority)
        /\ \A i \in 1..Len(checklist_tasks) : checklist_tasks[i].id = "task_" \o IntToStr(i)

\* a checklist with a HIGH task: the MEDIUM and the LOW task stand before it
C27_HighTasksComeLast ==
    /\ checklist_pc = "generated"
    /\ Len(checklist_tasks) >= 3
    /\ checklist_tasks[1].priority = TaskPriority.MEDIUM
    /\ checklist_tasks[1].id = "task_1"
    /\ checklist_tasks[Len(checklist_tasks)].priority = TaskPriority.HIGH
    /\ \E i \in 1..Len(checklist_tasks) :
          /\ checklist_tasks[i].priority = TaskPriority.LOW
          /\ checklist_tasks[i + 1].priority = TaskPriority.HIGH

\* the ids follow the returned order
C27_IdsFollowReturnedOrder ==
    checklist_pc = "generated" =>
        \A i \in 1..Len(checklist_tasks) : checklist_tasks[i].id = "task_" \o IntToStr(i)

(***************************************************************************)
(* MLOpsManager.wait_for_completion (src/src/mlops.py), step by step.      *)
(* Time is counted in whole units since start_time; a status check takes   *)
(* no time or one unit, a sleep takes check_interval.                      *)
(***************************************************************************)
\* the longest timeout a call is given
MaxTimeout == 4

\* what together.Finetune.retrieve gives: an exception, nothing, or a job
\* with or without a status and a fine-tuned model
JobResponses ==
    {[kind |-> "raises", status |-> None, fine_tuned_model |-> None],
     [kind |-> "empty", status |-> None, fine_tuned_model |-> None]}
    \cup [kind : {"job"},
          status : {None, Some("queued"), Some("running"), Some("completed"), Some("failed"),
                    Some("cancelled")},
          fine_tuned_model : {None, Some("ft-llama3")}]

CheckFailed == [kind |-> "RuntimeError", status |-> "", model_id |-> None]

\* check_finetune_status: (status, model_id), or RuntimeError
check_finetune_status(job_response) ==
    IF job_response.kind # "job" THEN CheckFailed
    ELSE [kind |-> "status",
          status |-> IF job_response.status = None THEN "unknown" ELSE job_response.status[1],
          model_id |-> job_response.fine_tuned_model]

\* status in ['completed', 'failed', 'running']
CompletedFailedOrRunning(status) == status \in {"completed", "failed", "running"}

\* status in ['completed', 'failed']
is_final(status) == status \in {"completed", "failed"}

NoResult == [kind |-> "none", status |-> "", model_id |-> None]

InitMlops ==
    /\ mlops_args \in [check_interval : {1, 2}, timeout : 0..MaxTimeout]
    /\ mlops_pc = "while"
    /\ mlops_now = 0
    /\ mlops_last = NoResult
    /\ mlops_result = NoResult
    /\ mlops_sleeps = 0

\* while time.time() - start_time < timeout: ... raise TimeoutError
TestTimeout ==
    /\ mlops_pc = "while"
    /\ IF mlops_now < mlops_args.timeout
       THEN mlops_pc' = "check" /\ UNCHANGED mlops_result
       ELSE /\ mlops_pc' = "raised"
            /\ mlops_result' = [kind |-> "TimeoutError", status |-> "", model_id |-> None]
    /\ UNCHANGED <<mlops_args, mlops_now, mlops_last, mlops_sleeps, outside_mlops>>

\* status, model_id = self.check_finetune_status(job_id), and the return of
\* a final status
CheckStatus ==
    /\ mlops_pc = "check"
    /\ \E job_response \in JobResponses, took \in {0, 1} :
          /\ mlops_last' = check_finetune_status(job_response)
          /\ mlops_now' = mlops_now + took
    /\ IF mlops_last'.kind = "status" /\ is_final(mlops_last'.status)
       THEN /\ mlops_pc' = "returned"
            /\ mlops_result' = [kind |-> "returned", status |-> mlops_last'.status,
                                model_id |-> mlops_last'.model_id]
       ELSE mlops_pc' = "sleep" /\ UNCHANGED mlops_result
    /\ UNCHANGED <<mlops_args, mlops_sleeps, outside_mlops>>

\* time.sleep(check_interval), after a status that is not final and after a
\* check that failed
Sleep ==
    /\ mlops_pc = "sleep"
    /\ mlops_now' = mlops_now + mlops_args.check_interval
    /\ mlops_sleeps' = mlops_sleeps + 1
    /\ mlops_pc' = "while"
    /\ UNCHANGED <<mlops_args, mlops_last, mlops_result, outside_mlops>>

NextMlops ==
    \/ TestTimeout
    \/ CheckStatus
    \/ Sleep

MlopsIdle ==
    /\ mlops_args = [check_interval |-> 1, timeout |-> 0]
    /\ mlops_pc = "idle"
    /\ mlops_now = 0
    /\ mlops_last = NoResult
    /\ mlops_result = NoResult
    /\ mlops_sleeps = 0

(***************************************************************************)
(* Claims about waiting for a fine-tuning job                              *)
(***************************************************************************)
\* what a step of the loop does after a check
PollsAgainUnlessFinal ==
    /\ (mlops_pc = "check" /\ mlops_pc' # "check") =>
          IF mlops_last'.kind = "status" /\ mlops_last'.status \in {"completed", "failed"}
          THEN mlops_pc' = "returned"
          ELSE mlops_pc' = "sleep" /\ mlops_result' = NoResult
    /\ (mlops_pc = "sleep" /\ mlops_pc' # "sleep") =>
          /\ mlops_pc' = "while"
          /\ mlops_now' = mlops_now + mlops_args.check_interval
    /\ mlops_pc \in {"returned", "raised"} => mlops_pc' = mlops_pc

\* C28: wait_for_completion returns only a status 'completed' or 'failed',
\* with the model id of the same status check; after any other status and
\* after a failed check it sleeps check_interval and polls again; and the
\* call always ends, by such a return or, once the timeout has run out
\* without one, by TimeoutError.
C28_ReturnsOnlyFinalStatus ==
    /\ [](mlops_pc = "returned" =>
            /\ mlops_result.kind = "returned"
            /\ mlops_result.status \in {"completed", "failed"}
            /\ mlops_last.kind = "status"
            /\ mlops_result.status = mlops_last.status
            /\ mlops_result.model_id = mlops_last.model_id)
    /\ [](mlops_pc = "raised" =>
            /\ mlops_result.kind = "TimeoutError"
            /\ mlops_now >= mlops_args.timeout)
    /\ [](mlops_result.kind \in {"none", "returned", "TimeoutError"})
    /\ [][PollsAgainUnlessFinal]_vars
    /\ <>(mlops_pc \in {"returned", "raised"})

\* a job still running after two sleeps and a failed check: TimeoutError
C28_Witness ==
    /\ mlops_pc = "raised"
    /\ mlops_sleeps >= 2
    /\ mlops_last.kind = "RuntimeError"
    /\ mlops_result.kind = "TimeoutError"

\* 'completed' with its model id returned after a sleep
C28_ReturnedAfterPolling ==
    /\ mlops_pc = "returned"
    /\ mlops_sleeps >= 1
    /\ mlops_result = [kind |-> "returned", status |-> "completed",
                       model_id |-> Some("ft-llama3")]

(***************************************************************************)
(* analyze_profile (src/app.py), step by step: every call to an engine and *)
(* every entry handed to a logger is appended to the events of the run.    *)
(***************************************************************************)
\* how many runs one session makes
MaxRuns == 2

\* the locals of a run: the engines, profile and optimization_report
NoOutcomes ==
    [engines |-> FALSE, extraction |-> "none", profile |-> None,
     generation |-> "none", optimization_report |-> None]

Event(kind, success) == [kind |-> kind, success |-> success]

\* the step after the vision_extraction entry, with no return in the
\* except branch
GenerateAfterLog(ok) == "generate"

\* the step after the vision_extraction entry: the except branch returns
after_vision_log(ok) == IF ok THEN "generate" ELSE "done"

\* the step after the strategy_generation entry: the except branch returns
after_strategy_log(ok) == IF ok THEN "log_training" ELSE "done"

\* initialize_session_state
InitAnalyze ==
    /\ analyze_pc = "start"
    /\ analyze_events = <<>>
    /\ analyze_outcome = NoOutcomes
    /\ analyze_runs = 0
    /\ analyze_session = [profile_data |-> None, optimization_report |-> None]
    /\ analyze_report_of = None

\* get_vision_engine(), get_strategy_engine(); return if one is missing
StartRun ==
    /\ analyze_pc \in {"start", "done"}
    /\ analyze_runs < MaxRuns
    /\ analyze_runs' = analyze_runs + 1
    /\ analyze_events' = <<>>
    /\ \E engines \in BOOLEAN :
          /\ analyze_outcome' = [NoOutcomes EXCEPT !.engines = engines]
          /\ analyze_pc' = IF engines THEN "extract" ELSE "done"
    /\ UNCHANGED <<analyze_session, analyze_report_of, outside_analyze>>

\* profile = vision_engine.extract_profile_data(uploaded_files)
ExtractProfileData ==
    /\ analyze_pc = "extract"
    /\ \E result \in ExtractionResults :
          analyze_outcome' =
              IF result.kind = "error"
              THEN [analyze_outcome EXCEPT !.extraction = "raised"]
              ELSE [analyze_outcome EXCEPT !.extraction = "returned",
                                           !.profile = Some(result.profile)]
    /\ analyze_events' = Append(analyze_events, Event("extract_profile_data", TRUE))
    /\ analyze_pc' = "log_vision"
    /\ UNCHANGED <<analyze_runs, analyze_session, analyze_report_of, outside_analyze>>

\* telemetry.log_vision_extraction(success=True) and
\* st.session_state.profile_data = profile of the try branch, or
\* log_vision_extraction(success=False) of the except branch, which returns
LogVisionExtraction ==
    /\ analyze_pc = "log_vision"
    /\ analyze_events' =
           Append(analyze_events,
                  Event("vision_extraction", analyze_outcome.extraction = "returned"))
    /\ analyze_session' =
           IF analyze_outcome.extraction = "returned"
           THEN [analyze_session EXCEPT !.profile_data = analyze_outcome.profile]
           ELSE analyze_session
    /\ analyze_pc' = after_vision_log(analyze_outcome.extraction = "returned")
    /\ UNCHANGED <<analyze_outcome, analyze_runs, analyze_report_of, outside_analyze>>

\* optimization_report = strategy_engine.generate_optimization_plan(...)
GenerateOptimizationPlan ==
    /\ analyze_pc = "generate"
    /\ \E sidebar \in Sidebars, llm \in StrategyReplies :
          LET plan == generate_optimization_plan(sidebar.target_industry,
                                                 sidebar.target_role,
                                                 sidebar.current_model, llm)
          IN  analyze_outcome' =
                  IF plan.kind = "error"
                  THEN [analyze_outcome EXCEPT !.generation = "raised"]
                  ELSE [analyze_outcome EXCEPT !.generation = "returned",
                                               !.optimization_report = Some(plan.text)]
    /\ analyze_events' = Append(analyze_events, Event("generate_optimization_plan", TRUE))
    /\ analyze_pc' = "log_strategy"
    /\ UNCHANGED <<analyze_runs, analyze_session, analyze_report_of, outside_analyze>>

\* telemetry.log_strategy_generation(success=True) and
\* st.session_state.optimization_report = optimization_report of the try
\* branch, or log_strategy_generation(success=False) of the except branch,
\* which returns
LogStrategyGeneration ==
    /\ analyze_pc = "log_strategy"
    /\ analyze_events' =
           Append(analyze_events,
                  Event("strategy_generation", analyze_outcome.generation = "returned"))
    /\ IF analyze_outcome.generation = "returned"
       THEN /\ analyze_session' =
                   [analyze_session EXCEPT
                       !.optimization_report = analyze_outcome.optimization_report]
            /\ analyze_report_of' = analyze_outcome.profile
       ELSE UNCHANGED <<analyze_session, analyze_report_of>>
    /\ analyze_pc' = after_strategy_log(analyze_outcome.generation = "returned")
    /\ UNCHANGED <<analyze_outcome, analyze_runs, outside_analyze>>

\* training_logger.log_training_example(...), which returns whether the
\* example was written
LogTrainingExample ==
    /\ analyze_pc = "log_training"
    /\ \E written \in BOOLEAN :
          analyze_events' = Append(analyze_events, Event("training_example", written))
    /\ analyze_pc' = "done"
    /\ UNCHANGED <<analyze_outcome, analyze_runs, analyze_session, analyze_report_of,
                   outside_analyze>>

NextAnalyze ==
    \/ StartRun
    \/ ExtractProfileData
    \/ LogVisionExtraction
    \/ GenerateOptimizationPlan
    \/ LogStrategyGeneration
    \/ LogTrainingExample

AnalyzeIdle ==
    /\ analyze_pc = "idle"
    /\ analyze_events = <<>>
    /\ analyze_outcome = NoOutcomes
    /\ analyze_runs = 0
    /\ analyze_session = [profile_data |-> None, optimization_report |-> None]
    /\ analyze_report_of = None

(***************************************************************************)
(* Claims about the order of events in analyze_profile                     *)
(***************************************************************************)
\* the kinds of the events of the run, in order
EventKinds == [n \in 1..Len(analyze_events) |-> analyze_events[n].kind]

\* C26: the events of a run of analyze_profile are, in this order, the
\* vision extraction call, one vision_extraction entry whose success flag is
\* the outcome of the extraction, then only after a successful extraction
\* the strategy call and one strategy_generation entry whose success flag is
\* the outcome of the generation, then only after a successful generation
\* one training example; a finished run holds all the events its outcomes
\* call for, and after a failed extraction neither the strategy engine is
\* called nor a training example logged.
C26_EventsInOrder ==
    /\ EventKinds = SubSeq(<<"extract_profile_data", "vision_extraction",
                            "generate_optimization_plan", "strategy_generation",
                            "training_example">>, 1, Len(analyze_events))
    /\ Len(analyze_events) >= 2 =>
          analyze_events[2].success = (analyze_outcome.extraction = "returned")
    /\ Len(analyze_events) >= 3 => analyze_events[2].success
    /\ Len(analyze_events) >= 4 =>
          analyze_events[4].success = (analyze_outcome.generation = "returned")
    /\ Len(analyze_events) >= 5 => analyze_events[4].success
    /\ analyze_outcome.extraction = "raised" => Len(analyze_events) <= 2
    /\ (analyze_pc = "done" /\ analyze_outcome.engines) =>
          Len(analyze_events) = (IF analyze_outcome.extraction = "raised" THEN 2
                                 ELSE IF analyze_outcome.generation = "raised" THEN 4
                                 ELSE 5)

\* a second run in which the extraction succeeded and the generation
\* failed: four events, the last a strategy_generation entry with success
\* false, and no training example
C26_Witness ==
    /\ analyze_runs = 2
    /\ analyze_pc = "done"
    /\ Len(analyze_events) = 4
    /\ analyze_events[2] = Event("vision_extraction", TRUE)
    /\ analyze_events[4] = Event("strategy_generation", FALSE)

\* a run that ended after a failed extraction: the call and its entry
C26_FailedExtractionEndsRun ==
    /\ analyze_pc = "done"
    /\ analyze_events = <<Event("extract_profile_data", TRUE),
                          Event("vision_extraction", FALSE)>>

(***************************************************************************)
(* Claims about the report and the stored profile                          *)
(***************************************************************************)
\* C30: between runs of analyze_profile, whenever the session's
\* optimization_report is set it was generated from the profile stored in
\* profile_data.
C30_ReportIsOfStoredProfile ==
    (analyze_pc = "done" /\ analyze_session.optimization_report # None) =>
        analyze_report_of = analyze_session.profile_data

\* after a run whose extraction succeeded and whose generation failed, the
\* session holds the new profile next to the report of an earlier one
C30_StaleReportNextToNewProfile ==
    /\ analyze_pc = "done"
    /\ analyze_outcome.extraction = "returned"
    /\ analyze_outcome.generation = "raised"
    /\ analyze_session.profile_data = analyze_outcome.profile
    /\ analyze_session.optimization_report # None
    /\ analyze_report_of # analyze_session.profile_data

(***************************************************************************)
(* Specifications                                                          *)
(***************************************************************************)
ParseIdle ==
    /\ response_text = ""
    /\ parse_pc = "idle"
    /\ parse_result = Raised

TelemetryIdle ==
    /\ local_logs = <<>>
    /\ log_file = <<>>
    /\ log_clock = 0
    /\ log_plan = [odd |-> "vision_extraction", even |-> "vision_extraction",
                   success |-> TRUE, writable |-> TRUE, loaded |-> 0]

InitSpecParse ==
    /\ InitParse /\ TelemetryIdle /\ GapIdle /\ CompletenessIdle /\ SectionIdle /\ ScorerIdle
    /\ SessionIdle /\ ExtractIdle /\ StrategyIdle /\ TrainingIdle /\ SharedIdle /\ ChecklistIdle /\ MlopsIdle /\ AnalyzeIdle

SpecParse == InitSpecParse /\ [][NextParse]_vars

InitSpecTelemetry ==
    /\ InitTelemetry /\ ParseIdle /\ GapIdle /\ CompletenessIdle /\ SectionIdle /\ ScorerIdle
    /\ SessionIdle /\ ExtractIdle /\ StrategyIdle /\ TrainingIdle /\ SharedIdle /\ ChecklistIdle /\ MlopsIdle /\ AnalyzeIdle

SpecTelemetry == InitSpecTelemetry /\ [][NextTelemetry]_vars

InitSpecGap ==
    /\ InitGap /\ ParseIdle /\ TelemetryIdle /\ CompletenessIdle /\ SectionIdle /\ ScorerIdle
    /\ SessionIdle /\ ExtractIdle /\ StrategyIdle /\ TrainingIdle /\ SharedIdle /\ ChecklistIdle /\ MlopsIdle /\ AnalyzeIdle

SpecGap == InitSpecGap /\ [][NextGap]_vars

InitSpecCompleteness ==
    /\ InitCompleteness /\ ParseIdle /\ TelemetryIdle /\ GapIdle /\ SectionIdle /\ ScorerIdle
    /\ SessionIdle /\ ExtractIdle /\ StrategyIdle /\ TrainingIdle /\ SharedIdle /\ ChecklistIdle /\ MlopsIdle /\ AnalyzeIdle

SpecCompleteness == InitSpecCompleteness /\ [][NextCompleteness]_vars

InitSpecSection ==
    /\ InitSection /\ ParseIdle /\ TelemetryIdle /\ GapIdle /\ CompletenessIdle /\ ScorerIdle
    /\ SessionIdle /\ ExtractIdle /\ StrategyIdle /\ TrainingIdle /\ SharedIdle /\ ChecklistIdle /\ MlopsIdle /\ AnalyzeIdle

SpecSection == InitSpecSection /\ [][NextSection]_vars

InitSpecScorer ==
    /\ InitScorer /\ ParseIdle /\ TelemetryIdle /\ GapIdle /\ CompletenessIdle /\ SectionIdle
    /\ SessionIdle /\ ExtractIdle /\ StrategyIdle /\ TrainingIdle /\ SharedIdle /\ ChecklistIdle /\ MlopsIdle /\ AnalyzeIdle

SpecScorer == InitSpecScorer /\ [][NextScorer]_vars

InitSpecSession ==
    /\ InitSession
    /\ ParseIdle /\ TelemetryIdle /\ GapIdle /\ CompletenessIdle /\ SectionIdle /\ ScorerIdle
    /\ ExtractIdle /\ StrategyIdle /\ TrainingIdle /\ SharedIdle /\ ChecklistIdle /\ MlopsIdle /\ AnalyzeIdle

SpecSession == InitSpecSession /\ [][NextSession]_vars

InitSpecExtract ==
    /\ InitExtract
    /\ ParseIdle /\ TelemetryIdle /\ GapIdle /\ CompletenessIdle /\ SectionIdle /\ ScorerIdle
    /\ SessionIdle /\ StrategyIdle /\ TrainingIdle /\ SharedIdle /\ ChecklistIdle /\ MlopsIdle /\ AnalyzeIdle

SpecExtract == InitSpecExtract /\ [][NextExtract]_vars

InitSpecStrategy ==
    /\ InitStrategy
    /\ ParseIdle /\ TelemetryIdle /\ GapIdle /\ CompletenessIdle /\ SectionIdle /\ ScorerIdle
    /\ SessionIdle /\ ExtractIdle /\ TrainingIdle /\ SharedIdle /\ ChecklistIdle /\ MlopsIdle /\ AnalyzeIdle

SpecStrategy == InitSpecStrategy /\ [][NextStrategy]_vars

InitSpecTraining ==
    /\ InitTraining
    /\ ParseIdle /\ TelemetryIdle /\ GapIdle /\ CompletenessIdle /\ SectionIdle /\ ScorerIdle
    /\ SessionIdle /\ ExtractIdle /\ StrategyIdle /\ SharedIdle /\ ChecklistIdle /\ MlopsIdle /\ AnalyzeIdle

SpecTraining == InitSpecTraining /\ [][NextTraining]_vars

InitSpecShared ==
    /\ InitShared
    /\ ParseIdle /\ TelemetryIdle /\ GapIdle /\ CompletenessIdle /\ SectionIdle /\ ScorerIdle
    /\ SessionIdle /\ ExtractIdle /\ StrategyIdle /\ TrainingIdle /\ ChecklistIdle /\ MlopsIdle /\ AnalyzeIdle

SpecShared == InitSpecShared /\ [][NextShared]_vars

InitSpecChecklist ==
    /\ InitChecklist
    /\ ParseIdle /\ TelemetryIdle /\ GapIdle /\ CompletenessIdle /\ SectionIdle /\ ScorerIdle
    /\ SessionIdle /\ ExtractIdle /\ StrategyIdle /\ TrainingIdle /\ SharedIdle /\ MlopsIdle /\ AnalyzeIdle

SpecChecklist == InitSpecChecklist /\ [][NextChecklist]_vars

InitSpecMlops ==
    /\ InitMlops
    /\ ParseIdle /\ TelemetryIdle /\ GapIdle /\ CompletenessIdle /\ SectionIdle /\ ScorerIdle
    /\ SessionIdle /\ ExtractIdle /\ StrategyIdle /\ TrainingIdle /\ SharedIdle /\ ChecklistIdle /\ AnalyzeIdle

SpecMlops == InitSpecMlops /\ [][NextMlops]_vars

\* the call keeps running: the thread that made it is scheduled
SpecMlopsFair == InitSpecMlops /\ [][NextMlops]_vars /\ WF_vars(NextMlops)

InitSpecAnalyze ==
    /\ InitAnalyze
    /\ ParseIdle /\ TelemetryIdle /\ GapIdle /\ CompletenessIdle /\ SectionIdle /\ ScorerIdle
    /\ SessionIdle /\ ExtractIdle /\ StrategyIdle /\ TrainingIdle /\ SharedIdle /\ ChecklistIdle
    /\ MlopsIdle

SpecAnalyze == InitSpecAnalyze /\ [][NextAnalyze]_vars

=============================================================================
